---- MODULE Spec2Model ----
(***************************************************************************)
(* Muesli backend adapter (diarise_transcribe/muesli_backend.py): the      *)
(* framed-protocol dispatcher, the PCM aligner and stream writers, the     *)
(* transcript emitter and the per-stream live processors.                  *)
(*                                                                         *)
(* Times are integers counting ticks of 10 ms (TicksPerSecond = 100), so   *)
(* the emitter's 0.02 s slack is 2 ticks.  Bytes are small integers.       *)
(***************************************************************************)
EXTENDS Integers, Sequences, FiniteSets, TLC

VARIABLES
    sample_rate,      \* BackendState.sample_rate
    channels,         \* BackendState.channels
    writers,          \* stream name -> StreamWriter (system_writer, mic_writer); empty before START
    out,              \* the JSONL records written to stdout, in order
    starts,           \* number of MEETING_START frames handled so far
    finalize_lag,     \* TranscriptEmitter._finalize_lag (ticks)
    last_emitted_t1_by_stream,  \* TranscriptEmitter._last_emitted_t1_by_stream
    last_partial_by_stream,     \* TranscriptEmitter._last_partial_by_stream
    seen_speakers,    \* TranscriptEmitter._seen_speakers
    ncalls,           \* history: number of emit_transcript calls made so far
    last_call,        \* history: the arguments of the latest emit_transcript call
    last_frame,       \* history: the latest frame the dispatcher handled
    turn_pool,        \* input: the turns the pipeline's transcripts are made of in this run
    args,             \* the parsed command line: no_live, transcribe_streams, live_interval, live_min_seconds
    live,             \* live_processors: stream name -> LiveProcessor (fields, and where its worker is)
    run_pipeline_lock,  \* RUN_PIPELINE_LOCK: the name of the thread holding it, "" when free
    main,             \* the dispatcher thread: where it is in main()
    passes,           \* history: per stream, the pipeline passes its worker started, in order
    stop_log,         \* history: per stream, the call of LiveProcessor.stop and its return
    skips,            \* history: per stream, the latest non-final call that returned at its due tests
    failures,         \* history: number of run_pipeline calls that raised
    pipeline,         \* one pipeline pass looked at step by step: its inputs, where it is, its temporary files
    peer,             \* the capture peer sending contiguous frames: its payload and frames sent
    reader,           \* one write_wav_from_pcm call: its snapshot, bytes still to read, the container so far
    sync,             \* the threads step by step: their locks, the steps still to run, the writes to stdout
    disk,             \* the raw file of a stream during an append: where the dispatcher is in the append, the bytes on disk, the sizes between appends and the sizes seen
    calc,             \* a function of merge.py looked at on its own: its arguments and its result
    fault             \* history: the fault a thread met: a read that found the input closed, a failed append, a failed step of a pass

\* ------------------------------------------------------------ constants

MSG_AUDIO == 1

MSG_MEETING_START == 3

BYTES_PER_SAMPLE == 2

STREAM_SYSTEM == 0

STREAM_MIC == 1

DefaultSampleRate == 48000

DefaultChannels == 1

MicrosPerSecond == 1000000

Streams == {"system", "mic"}

\* ------------------------------------------------------------ bounds

\* longest AUDIO payload, in bytes
MaxPayload == 4

\* MEETING_START frames in one run
MaxStarts == 2

\* MEETING_START frames in one run with live processors
MaxLiveStarts == 1

\* sample rates and channel counts a MEETING_START may carry
MetaSampleRates == {16000, 20000}

MetaChannels == {1, 2}

\* presentation timestamps of AUDIO frames (microseconds)
PtsValues == {-125, 0, 75, 125}

\* stream ids of AUDIO frames (2 names no stream)
StreamIds == {0, 1, 2}

\* emit_transcript calls in one run of the emitter
MaxCalls == 2

\* turns in one merged transcript
MaxTurns == 2

\* finalize lags (ticks)
Lags == {0, 3}

\* current_duration values (ticks)
Durations == {2, 4, 8}

Speakers == {"SPEAKER_00", "SPEAKER_01"}

Texts == {"hi", "ok"}

TurnStarts == {0}

TurnEnds == {3, 5, 6}

\* a SpeakerTurn, as far as the emitter reads it; end > start, as for every
\* turn words_to_turns builds
TurnSet ==
    {[speaker |-> sp, start |-> t0, end |-> t1, text |-> tx] :
        sp \in Speakers, t0 \in TurnStarts, t1 \in TurnEnds, tx \in Texts}

SeqsUpTo(S, n) == UNION {[1..k -> S] : k \in 0..n}

\* the pairs of turns a run of the emitter draws its transcripts from
TurnPools == {{a, b} : a \in TurnSet, b \in TurnSet}

Transcripts(pool) == SeqsUpTo(pool, MaxTurns)

\* Scenario E (spec section 8): finalize_lag 5 s, turns ending at 3.0 s, 7.0 s
\* and 10.5 s, current_duration 12.0 s and 16.0 s
ScenarioTurn1 == [speaker |-> "SPEAKER_00", start |-> 0, end |-> 300, text |-> "hi"]

ScenarioTurn2 == [speaker |-> "SPEAKER_01", start |-> 300, end |-> 700, text |-> "ok"]

ScenarioTurn3 == [speaker |-> "SPEAKER_00", start |-> 700, end |-> 1050, text |-> "hi"]

ScenarioFirst == <<ScenarioTurn1, ScenarioTurn2>>

ScenarioSecond == <<ScenarioTurn1, ScenarioTurn2, ScenarioTurn3>>

ScenarioTranscripts == {<<>>, <<ScenarioTurn1>>, ScenarioFirst, ScenarioSecond}

ScenarioDurations == {1200, 1600}

\* run_pipeline calls that raise in one run
MaxFailures == 1

\* the live runs: one sample per tick, one channel, frames of one sample at
\* 10 ms and 20 ms on either stream, so that a stream holds 0, 2 or 3 ticks
LiveSampleRates == {100}

LiveChannels == {1}

LivePts == {10000, 20000}

LiveStreamIds == {0, 1}

LiveLags == {1}

\* --transcribe-stream both
BothStreams == <<"system", "mic">>

\* --transcribe-stream system, mic, both
TranscribeStreams == {<<"system">>, <<"mic">>, BothStreams}

\* --live-interval and --live-min-seconds (ticks)
LiveTimings == {<<2, 1>>, <<1, 3>>, <<1, 1>>}

\* the command lines with at most one live processor: one stream selected,
\* or --no-live
LiveArgs ==
    {a \in [no_live : BOOLEAN, transcribe_streams : TranscribeStreams,
            live_interval : {lt[1] : lt \in LiveTimings},
            live_min_seconds : {lt[2] : lt \in LiveTimings}] :
        /\ <<a.live_interval, a.live_min_seconds>> \in LiveTimings
        /\ a.no_live \/ a.transcribe_streams # BothStreams}

\* the runs with both streams selected: frames at 0 ms only, a pass due as soon
\* as a stream holds one tick of audio
BothPts == {0}

BothArgs ==
    {[no_live |-> n, transcribe_streams |-> BothStreams, live_interval |-> 1,
      live_min_seconds |-> 1] : n \in BOOLEAN}

\* the command line of the runs without live processors: --no-live, the other
\* options at their defaults (15 s, 10 s)
NoLiveArgs ==
    [no_live |-> TRUE, transcribe_streams |-> <<"system">>,
     live_interval |-> 1500, live_min_seconds |-> 1000]

\* the turn the pipeline's transcripts are made of in the live runs
LiveTurn == [speaker |-> "SPEAKER_00", start |-> 0, end |-> 1, text |-> "hi"]

LiveTranscripts == {<<LiveTurn>>}

\* a payload of n bytes: byte i is i, so every byte of a payload is non-zero
\* and tells its position
PayloadOfLen(n) == [i \in 1..n |-> i]

Payloads == {PayloadOfLen(n) : n \in 0..MaxPayload}

LivePayloads == {PayloadOfLen(2)}

\* ------------------------------------------------------------ helpers

Max(a, b) == IF a >= b THEN a ELSE b

Min(a, b) == IF a <= b THEN a ELSE b

Zeros(n) == [i \in 1..n |-> 0]

\* bytes[from:] of Python: the suffix after dropping the first `from` bytes
DropBytes(bytes, from) == SubSeq(bytes, from + 1, Len(bytes))

\* bytes[:n]
TakeBytes(bytes, n) == SubSeq(bytes, 1, n)

\* int(round(n / d)) for d > 0: Python 3 rounds a half to the even neighbour
RoundHalfEven(n, d) ==
    LET q == n \div d
        r == n % d
    IN  IF 2 * r < d THEN q
        ELSE IF 2 * r > d THEN q + 1
        ELSE IF q % 2 = 0 THEN q ELSE q + 1

\* ------------------------------------------------------------ stream writer

\* open_stream_writer: a fresh StreamWriter on truncated files
OpenStreamWriter ==
    [wav |-> <<>>, pcm |-> <<>>, last_sample_index |-> 0, bytes_written |-> 0]

BytesPerFrame(ch) == BYTES_PER_SAMPLE * ch

\* the start sample truncated instead of rounded
StartSampleTruncated(pts_us, sr) == Max(0, (pts_us * sr) \div MicrosPerSecond)

\* start_sample = int(round(pts_us * sample_rate / 1_000_000.0)), clamped at 0
StartSample(pts_us, sr) == Max(0, RoundHalfEven(pts_us * sr, MicrosPerSecond))

\* the payload kept whole, its trailing partial frame included
UsableUntruncated(payload, ch) == Len(payload)

\* usable = (len(payload) // bytes_per_frame) * bytes_per_frame
Usable(payload, ch) == (Len(payload) \div BytesPerFrame(ch)) * BytesPerFrame(ch)

\* the gap counted in bytes where frames are meant: gap_frames zero bytes
InsertSilenceBytes(w, gap_frames, bytes_per_frame) ==
    [wav |-> w.wav \o Zeros(gap_frames),
     pcm |-> w.pcm \o Zeros(gap_frames),
     last_sample_index |-> w.last_sample_index + gap_frames,
     bytes_written |-> w.bytes_written + gap_frames]

\* silence written to the raw sink only
InsertSilencePcmOnly(w, gap_frames, bytes_per_frame) ==
    [w EXCEPT !.pcm = @ \o Zeros(gap_frames * bytes_per_frame),
              !.last_sample_index = @ + gap_frames,
              !.bytes_written = @ + gap_frames * bytes_per_frame]

\* the gap branch: gap_frames frames of zero bytes to both sinks
InsertSilence(w, gap_frames, bytes_per_frame) ==
    LET silence == Zeros(gap_frames * bytes_per_frame)
    IN  [wav |-> w.wav \o silence,
         pcm |-> w.pcm \o silence,
         last_sample_index |-> w.last_sample_index + gap_frames,
         bytes_written |-> w.bytes_written + Len(silence)]

\* the final writes: the payload to both sinks, the counters advanced
AppendPayload(w, payload, bytes_per_frame) ==
    [wav |-> w.wav \o payload,
     pcm |-> w.pcm \o payload,
     last_sample_index |-> w.last_sample_index + (Len(payload) \div bytes_per_frame),
     bytes_written |-> w.bytes_written + Len(payload)]

\* the overlap branch without the drop: the whole payload appended
AppendOverlappingWhole(w, payload, overlap_frames, bytes_per_frame) ==
    AppendPayload(w, payload, bytes_per_frame)

\* the overlap branch taken as a seek: the whole payload written, the index
\* set from the timestamp
AppendOverlappingRewind(w, payload, overlap_frames, bytes_per_frame) ==
    [AppendPayload(w, payload, bytes_per_frame) EXCEPT
        !.last_sample_index =
            w.last_sample_index - overlap_frames + (Len(payload) \div bytes_per_frame)]

\* the overlap branch: the first overlap_frames frames of the payload dropped,
\* nothing written when that is all of it
AppendOverlapping(w, payload, overlap_frames, bytes_per_frame) ==
    LET drop_bytes == overlap_frames * bytes_per_frame
    IN  IF drop_bytes >= Len(payload) THEN w
        ELSE AppendPayload(w, DropBytes(payload, drop_bytes), bytes_per_frame)

\* write_aligned_audio: the writer after the call
WriteAlignedAudio(w, payload, pts_us, sr, ch) ==
    LET bytes_per_frame == BytesPerFrame(ch)
        usable == Usable(payload, ch)
        whole == TakeBytes(payload, usable)
        start_sample == StartSample(pts_us, sr)
    IN  IF Len(payload) = 0 \/ usable <= 0 THEN w
        ELSE IF start_sample > w.last_sample_index THEN
            AppendPayload(
                InsertSilence(w, start_sample - w.last_sample_index, bytes_per_frame),
                whole, bytes_per_frame)
        ELSE IF start_sample < w.last_sample_index THEN
            AppendOverlapping(w, whole, w.last_sample_index - start_sample, bytes_per_frame)
        ELSE AppendPayload(w, whole, bytes_per_frame)

\* BackendState.get_stream by stream id: the name of the stream, "" for none
StreamOfId(stream_id) ==
    IF stream_id = STREAM_SYSTEM THEN "system"
    ELSE IF stream_id = STREAM_MIC THEN "mic"
    ELSE ""

\* ------------------------------------------------------------ dispatcher

\* MSG_MEETING_START: set the meta, open both writers, report
MeetingStart(sr, ch) ==
    /\ main.pc = "frames"
    /\ starts < MaxStarts
    /\ starts' = starts + 1
    /\ sample_rate' = sr
    /\ channels' = ch
    /\ writers' = [s \in Streams |-> OpenStreamWriter]
    /\ out' = Append(out, [type |-> "status", message |-> "meeting_started"])
    /\ last_frame' = [type |-> MSG_MEETING_START, stream_id |-> 0, pts_us |-> 0,
                      payload |-> <<>>]

\* the time unit: durations are counted in ticks of 10 ms
TicksPerSecond == 100

\* duration = writer.last_sample_index / float(sample_rate), in ticks; exact
\* whenever sample_rate divides last_sample_index * TicksPerSecond
IndexDuration(last_sample_index, sr) == (last_sample_index * TicksPerSecond) \div sr

\* the test of notify_duration
NotifyDue(duration, last_processed_duration) ==
    /\ duration >= args.live_min_seconds
    /\ duration - last_processed_duration >= args.live_interval

\* LiveProcessor.notify_duration: the processor after the call
NotifyDuration(lp, duration) ==
    [lp EXCEPT !.current_duration = duration,
               !.event = IF NotifyDue(duration, lp.last_processed_duration) THEN TRUE ELSE @]

\* MSG_AUDIO: align and append to the stream's writer, when there is one, and
\* tell the stream's live processor, when there is one, the new duration
Audio(stream_id, payload, pts_us) ==
    LET s == StreamOfId(stream_id)
        written == WriteAlignedAudio(writers[s], payload, pts_us, sample_rate, channels)
    IN  /\ main.pc = "frames"
        /\ writers' =
              IF s \in DOMAIN writers THEN [writers EXCEPT ![s] = written] ELSE writers
        /\ live' =
              IF s \in DOMAIN writers /\ s \in DOMAIN live
              THEN [live EXCEPT ![s] =
                        NotifyDuration(@, IndexDuration(written.last_sample_index, sample_rate))]
              ELSE live
        /\ last_frame' = [type |-> MSG_AUDIO, stream_id |-> stream_id, pts_us |-> pts_us,
                          payload |-> payload]
        /\ UNCHANGED <<sample_rate, channels, out, starts>>

\* ------------------------------------------------------------ transcript emitter

\* the 0.02 s slack of the segment test, in ticks
Slack == 2

\* a dictionary entry that was never set: .get(stream_key) gives None
NoPartial == <<>>

\* speaker_id = f"{stream_name}:{turn.speaker}"; the stream names hold no colon,
\* so the pair determines the string and the string the pair
SpeakerId(stream_name, speaker) == <<stream_name, speaker>>

\* the speaker ids of a transcript's turns
SpeakerIds(stream_name, turns) ==
    {SpeakerId(stream_name, turns[i].speaker) : i \in 1..Len(turns)}

\* the cutoff with the finalize lag forgotten
CutoffNoLag(current_duration, finalize, lag) == current_duration

\* cutoff = current_duration if finalize else max(0.0, current_duration - finalize_lag)
Cutoff(current_duration, finalize, lag) ==
    IF finalize THEN current_duration ELSE Max(0, current_duration - lag)

\* the place of a stream name and of a speaker label in the order of Python's
\* strings ("mic" < "system", "SPEAKER_00" < "SPEAKER_01")
StreamRank(stream_name) == IF stream_name = "mic" THEN 1 ELSE 2

SpeakerRank(speaker) == IF speaker = "SPEAKER_00" THEN 1 ELSE 2

\* a < b for two speaker ids as strings: no stream name is a prefix of the
\* other, so the stream names decide, and the labels when they are equal
IdBefore(a, b) ==
    \/ StreamRank(a[1]) < StreamRank(b[1])
    \/ a[1] = b[1] /\ SpeakerRank(a[2]) < SpeakerRank(b[2])

\* sorted(ids): the least id, then the others sorted
RECURSIVE SortedIds(_)
SortedIds(ids) ==
    IF ids = {} THEN <<>>
    ELSE LET least == CHOOSE a \in ids : \A b \in ids \ {a} : IdBefore(a, b)
         IN  <<least>> \o SortedIds(ids \ {least})

\* no speakers event, whatever the call brings
NewSpeakersNever(ids, seen) == FALSE

\* a speakers event for every call that has turns
NewSpeakersAny(ids, seen) == ids # {}

\* new_speakers after the loop over the turns: some speaker_id of the call was
\* not in _seen_speakers
NewSpeakers(ids, seen) == ids \ seen # {}

\* {"type": "speakers", "known": [... for s in sorted(self._seen_speakers)]}
SpeakersEvent(known, call) ==
    [type |-> "speakers", known |-> SortedIds(known), call |-> call]

SegmentEvent(stream_name, turn, call) ==
    [type |-> "segment", speaker |-> turn.speaker,
     speaker_id |-> SpeakerId(stream_name, turn.speaker),
     stream |-> stream_name, t0 |-> turn.start, t1 |-> turn.end,
     text |-> turn.text, call |-> call]

PartialEvent(stream_name, turn, call) ==
    [type |-> "partial", speaker_id |-> SpeakerId(stream_name, turn.speaker),
     stream |-> stream_name, t0 |-> turn.start, text |-> turn.text, call |-> call]

\* the segment test with the cutoff excluded: turn.end < cutoff
SegmentDueStrict(turn, cutoff, last_emitted_t1) ==
    turn.end < cutoff /\ turn.end > last_emitted_t1 + Slack

\* the test of one turn in the segment loop
SegmentDue(turn, cutoff, last_emitted_t1) ==
    turn.end <= cutoff /\ turn.end > last_emitted_t1 + Slack

\* the segment loop's step that emits but keeps the old last_emitted_t1
SegmentStepNoAdvance(acc, turn, cutoff, stream_name, call) ==
    IF SegmentDue(turn, cutoff, acc.last_emitted_t1)
    THEN [events |-> Append(acc.events, SegmentEvent(stream_name, turn, call)),
          last_emitted_t1 |-> acc.last_emitted_t1]
    ELSE acc

\* one iteration of the segment loop on acc = [events, last_emitted_t1]
SegmentStep(acc, turn, cutoff, stream_name, call) ==
    IF SegmentDue(turn, cutoff, acc.last_emitted_t1)
    THEN [events |-> Append(acc.events, SegmentEvent(stream_name, turn, call)),
          last_emitted_t1 |-> Max(acc.last_emitted_t1, turn.end)]
    ELSE acc

\* the segment loop over the turns, in order
RECURSIVE SegmentLoop(_, _, _, _, _)
SegmentLoop(turns, cutoff, stream_name, call, acc) ==
    IF turns = <<>> THEN acc
    ELSE SegmentLoop(Tail(turns), cutoff, stream_name, call,
                     SegmentStep(acc, Head(turns), cutoff, stream_name, call))

\* partial = (last_turn.speaker, last_turn.start, last_turn.text)
Fingerprint(turn) == <<turn.speaker, turn.start, turn.text>>

\* the partial test without the comparison to the last partial
PartialDueNoDedup(last_turn, cutoff, finalize, last_partial) ==
    ~finalize /\ last_turn.end > cutoff

\* whether the call emits a partial for the last turn
PartialDue(last_turn, cutoff, finalize, last_partial) ==
    /\ ~finalize
    /\ last_turn.end > cutoff
    /\ Fingerprint(last_turn) # last_partial

\* TranscriptEmitter.emit_transcript, the whole call (it holds the emitter's
\* lock from its first read to its last write)
EmitTranscript(stream_name, turns, current_duration, finalize) ==
    LET call == ncalls + 1
        cutoff == Cutoff(current_duration, finalize, finalize_lag)
        ids == SpeakerIds(stream_name, turns)
        new_speakers == NewSpeakers(ids, seen_speakers)
        speakers_events ==
            IF new_speakers THEN <<SpeakersEvent(seen_speakers \cup ids, call)>> ELSE <<>>
        segs == SegmentLoop(turns, cutoff, stream_name, call,
                    [events |-> <<>>,
                     last_emitted_t1 |-> last_emitted_t1_by_stream[stream_name]])
        last_turn == turns[Len(turns)]
        partial_due == PartialDue(last_turn, cutoff, finalize,
                                  last_partial_by_stream[stream_name])
        partial_events ==
            IF partial_due THEN <<PartialEvent(stream_name, last_turn, call)>> ELSE <<>>
    IN  /\ UNCHANGED finalize_lag
        /\ ncalls' = call
        /\ last_call' = [stream |-> stream_name, turns |-> turns,
                         current_duration |-> current_duration,
                         finalize |-> finalize, cutoff |-> cutoff]
        /\ IF turns = <<>>
           THEN UNCHANGED <<seen_speakers, out, last_emitted_t1_by_stream,
                            last_partial_by_stream>>
           ELSE /\ seen_speakers' = seen_speakers \cup ids
                /\ out' = out \o speakers_events \o segs.events \o partial_events
                /\ last_emitted_t1_by_stream' =
                       [last_emitted_t1_by_stream EXCEPT ![stream_name] = segs.last_emitted_t1]
                /\ last_partial_by_stream' =
                       [last_partial_by_stream EXCEPT ![stream_name] =
                            IF partial_due THEN Fingerprint(last_turn) ELSE @]

\* ------------------------------------------------------------ live processor

\* the lock is free
LockIgnored(holder) == TRUE

\* `with RUN_PIPELINE_LOCK:` is entered only while no thread holds the lock
LockFree(holder) == holder = ""

\* the locals of _maybe_process before _snapshot has run
NoSnapshot == [sample_rate |-> 0, channels |-> 0, size_bytes |-> 0]

\* LiveProcessor.__init__ and start(): the fields, and the worker at the top of
\* the loop of _run
NewLiveProcessor ==
    [current_duration |-> 0, last_processed_duration |-> 0,
     event |-> FALSE, stop_event |-> FALSE, finalize_requested |-> FALSE,
     pc |-> "loop", finalize |-> FALSE, snapshot |-> NoSnapshot,
     duration |-> 0, merged |-> <<>>]

\* duration = snapshot.size_bytes / float(bytes_per_frame * snapshot.sample_rate),
\* in ticks; exact whenever the size is a whole number of ticks of audio
SnapshotDuration(snapshot) ==
    (snapshot.size_bytes * TicksPerSecond)
        \div (BytesPerFrame(snapshot.channels) * snapshot.sample_rate)

\* the test of a non-final pass with the minimum duration forgotten
ProcessDueNoMin(duration, last_processed_duration) ==
    duration - last_processed_duration >= args.live_interval

\* the two tests of _maybe_process on a non-final pass: neither skips
ProcessDue(duration, last_processed_duration) ==
    /\ ~(duration < args.live_min_seconds)
    /\ ~(duration - last_processed_duration < args.live_interval)

\* `if self._finalize_requested:` after the loop of _run
FinalPassRequested(lp) == lp.finalize_requested

\* _maybe_process returns with the duration of the snapshot recorded as
\* processed, whatever the outcome
ReturnedAdvancing(lp) ==
    [lp EXCEPT !.pc = IF lp.finalize THEN "done" ELSE "loop",
               !.last_processed_duration = Max(@, lp.duration),
               !.finalize = FALSE, !.snapshot = NoSnapshot,
               !.duration = 0, !.merged = <<>>]

\* _maybe_process returns: the worker is back in _run, after the loop's call
\* at the top of the loop, after the final call at the end of the thread
Returned(lp) ==
    [lp EXCEPT !.pc = IF lp.finalize THEN "done" ELSE "loop",
               !.finalize = FALSE, !.snapshot = NoSnapshot,
               !.duration = 0, !.merged = <<>>]

StatusEvent(message, stream_name, duration, finalize) ==
    [type |-> "status", message |-> message, stream |-> stream_name,
     duration |-> duration, finalize |-> finalize]

DoneEvent(stream_name, duration, turns, finalize) ==
    [type |-> "status", message |-> "live_process_done", stream |-> stream_name,
     duration |-> duration, turns |-> Len(turns), finalize |-> finalize]

ErrorEvent(message) == [type |-> "error", message |-> message]

\* _run, one turn of the loop up to the call: with _stop_event set the loop is
\* left, for the final call when one is asked for; otherwise
\* _event.wait(timeout=0.5) returns, on the event or on the timeout, the event
\* is cleared and _maybe_process(finalize=False) is called.  (A notify that
\* falls between the wait and the clear is a notify before this step; a stop
\* that falls there leaves only _event different, which is not read again.)
WorkerLoop(s) ==
    /\ s \in DOMAIN live
    /\ live[s].pc = "loop"
    /\ live' = [live EXCEPT ![s] =
                   IF @.stop_event
                   THEN IF FinalPassRequested(@)
                        THEN [@ EXCEPT !.pc = "snapshot", !.finalize = TRUE]
                        ELSE [@ EXCEPT !.pc = "done"]
                   ELSE [@ EXCEPT !.event = FALSE, !.pc = "snapshot",
                                  !.finalize = FALSE]]
    /\ UNCHANGED <<writers, sample_rate, channels, out, passes, run_pipeline_lock, failures>>

\* _snapshot, under state.lock: the writer, the sample rate and the channels
WorkerSnapshot(s) ==
    /\ s \in DOMAIN live
    /\ live[s].pc = "snapshot"
    /\ live' = [live EXCEPT ![s] =
                   IF s \in DOMAIN writers
                   THEN [@ EXCEPT !.pc = "stat",
                                  !.snapshot = [sample_rate |-> sample_rate,
                                                channels |-> channels,
                                                size_bytes |-> 0]]
                   ELSE Returned(@)]
    /\ UNCHANGED <<writers, sample_rate, channels, out, passes, run_pipeline_lock, failures>>

\* snapshot_stream, after state.lock is released, has read `size` as the size
\* of the file at the stream's raw path; then _maybe_process up to its tests:
\* return False on an empty snapshot and, on a non-final call, when the pass is
\* not due
WorkerStatOf(s, size) ==
    LET lp == live[s]
        snapshot == [lp.snapshot EXCEPT !.size_bytes = size]
        duration == SnapshotDuration(snapshot)
        skip == \/ snapshot.size_bytes <= 0
                \/ ~lp.finalize /\ ~ProcessDue(duration, lp.last_processed_duration)
    IN  /\ s \in DOMAIN live
        /\ lp.pc = "stat"
        /\ live' = [live EXCEPT ![s] =
                       IF skip THEN Returned(@)
                       ELSE [@ EXCEPT !.pc = "start", !.snapshot = snapshot,
                                      !.duration = duration]]
        /\ skips' = IF skip /\ snapshot.size_bytes > 0
                    THEN [skips EXCEPT ![s] =
                             [duration |-> duration,
                              last_processed_duration |-> lp.last_processed_duration]]
                    ELSE skips
        /\ UNCHANGED <<writers, sample_rate, channels, out, passes, run_pipeline_lock,
                       failures>>

\* the stat of snapshot_stream where every append is one step: the file holds
\* all the bytes written to it
WorkerStat(s) == WorkerStatOf(s, Len(writers[s].pcm))

\* the pass goes ahead: the live_process_start status event, then
\* write_wav_from_pcm builds the temporary container of the snapshot
WorkerStart(s) ==
    /\ s \in DOMAIN live
    /\ live[s].pc = "start"
    /\ out' = Append(out, StatusEvent("live_process_start", s, live[s].duration,
                                      live[s].finalize))
    /\ passes' = [passes EXCEPT ![s] =
                     Append(@, [finalize |-> live[s].finalize,
                                duration |-> live[s].duration,
                                last_processed_duration |->
                                    live[s].last_processed_duration])]
    /\ live' = [live EXCEPT ![s].pc = "acquire"]
    /\ UNCHANGED <<writers, sample_rate, channels, run_pipeline_lock, failures>>

\* `with RUN_PIPELINE_LOCK:` entered
WorkerAcquire(s) ==
    /\ s \in DOMAIN live
    /\ live[s].pc = "acquire"
    /\ LockFree(run_pipeline_lock)
    /\ run_pipeline_lock' = s
    /\ live' = [live EXCEPT ![s].pc = "run_pipeline"]
    /\ UNCHANGED <<writers, sample_rate, channels, out, passes, failures>>

\* run_pipeline returns a merged transcript; the lock is released
WorkerPipelineReturn(s, turns) ==
    /\ s \in DOMAIN live
    /\ live[s].pc = "run_pipeline"
    /\ run_pipeline_lock' = ""
    /\ live' = [live EXCEPT ![s] = [@ EXCEPT !.pc = "report", !.merged = turns]]
    /\ UNCHANGED <<writers, sample_rate, channels, out, passes, failures>>

\* run_pipeline raises; the lock is released
WorkerPipelineRaise(s) ==
    /\ s \in DOMAIN live
    /\ live[s].pc = "run_pipeline"
    /\ failures < MaxFailures
    /\ failures' = failures + 1
    /\ run_pipeline_lock' = ""
    /\ live' = [live EXCEPT ![s].pc = "error"]
    /\ UNCHANGED <<writers, sample_rate, channels, out, passes>>

\* the except branch: the error event, return False
WorkerError(s) ==
    /\ s \in DOMAIN live
    /\ live[s].pc = "error"
    /\ out' = Append(out, ErrorEvent("pipeline"))
    /\ live' = [live EXCEPT ![s] = Returned(@)]
    /\ UNCHANGED <<writers, sample_rate, channels, passes, run_pipeline_lock, failures>>

\* the live_process_done status event
WorkerReport(s) ==
    /\ s \in DOMAIN live
    /\ live[s].pc = "report"
    /\ out' = Append(out, DoneEvent(s, live[s].duration, live[s].merged, live[s].finalize))
    /\ live' = [live EXCEPT ![s].pc = "emit"]
    /\ UNCHANGED <<writers, sample_rate, channels, passes, run_pipeline_lock, failures>>

\* emitter.emit_transcript, then
\* _last_processed_duration = max(_last_processed_duration, duration), return True
WorkerEmit(s) ==
    /\ s \in DOMAIN live
    /\ live[s].pc = "emit"
    /\ EmitTranscript(s, live[s].merged, live[s].duration, live[s].finalize)
    /\ live' = [live EXCEPT ![s] =
                   Returned([@ EXCEPT !.last_processed_duration =
                                          Max(@, live[s].duration)])]
    /\ UNCHANGED <<writers, sample_rate, channels, passes, run_pipeline_lock, failures>>

\* ------------------------------------------------------------ main, after the frame loop

\* the stream the dispatcher is dealing with
MainStream == args.transcribe_streams[main.i]

\* the dispatcher moves on to the next entry of a list of n, or to `after`
NextOf(n, pc, after) ==
    IF main.i < n THEN [main EXCEPT !.pc = pc, !.i = main.i + 1]
    ELSE [main EXCEPT !.pc = after, !.i = 0]

\* the frame loop is left: to the stop of the first live processor, when there
\* is one, or to the closing of the writers
AfterFrames ==
    IF DOMAIN live # {} THEN [main EXCEPT !.pc = "stop", !.i = 1]
    ELSE [main EXCEPT !.pc = "close", !.i = 0]

\* MSG_MEETING_STOP: report and leave the loop
MeetingStop ==
    /\ main.pc = "frames"
    /\ out' = Append(out, [type |-> "status", message |-> "meeting_stopped"])
    /\ main' = AfterFrames
    /\ UNCHANGED <<live, stop_log, run_pipeline_lock, failures>>

\* read_exact raises EOFError: leave the loop
EndOfInput ==
    /\ main.pc = "frames"
    /\ main' = AfterFrames
    /\ UNCHANGED <<out, live, stop_log, run_pipeline_lock, failures>>

\* LiveProcessor.stop(finalize=True) up to the join: _finalize_requested, then
\* _stop_event, then _event are set.  The worker reads _finalize_requested only
\* after it has read _stop_event set, and no longer waits on _event after that,
\* so the three assignments are taken as one step.
StopSignal ==
    /\ main.pc = "stop"
    /\ live' = [live EXCEPT ![MainStream] =
                   [@ EXCEPT !.finalize_requested = TRUE, !.stop_event = TRUE,
                             !.event = TRUE]]
    /\ stop_log' = [stop_log EXCEPT ![MainStream] =
                       [called |-> TRUE, returned |-> FALSE,
                        size_bytes |-> IF MainStream \in DOMAIN writers
                                       THEN Len(writers[MainStream].pcm) ELSE 0]]
    /\ main' = [main EXCEPT !.pc = "join"]
    /\ UNCHANGED <<out, run_pipeline_lock, failures>>

\* the worker thread is not joined
ThreadFinishedNoWait(lp) == TRUE

\* the worker thread has ended: _run has returned, or an exception has left it
ThreadFinished(lp) == lp.pc \in {"done", "dead"}

\* self._thread.join() returns, and stop with it
StopJoin ==
    /\ main.pc = "join"
    /\ ThreadFinished(live[MainStream])
    /\ stop_log' = [stop_log EXCEPT ![MainStream].returned = TRUE]
    /\ main' = NextOf(Len(args.transcribe_streams), "stop", "close")
    /\ UNCHANGED <<out, live, run_pipeline_lock, failures>>

\* the test without the byte count: `not writer`
NoAudioNoWriter(s) == s \notin DOMAIN writers

\* `not writer or writer.bytes_written == 0`
NoAudio(s) == s \notin DOMAIN writers \/ writers[s].bytes_written = 0

\* f"no_audio_for_stream_{stream_name}"
NoAudioMessage(s) ==
    IF s = "system" THEN "no_audio_for_stream_system" ELSE "no_audio_for_stream_mic"

\* the no_audio_for_stream_ error events, for the streams of a list in order
RECURSIVE NoAudioErrors(_)
NoAudioErrors(streams) ==
    IF streams = <<>> THEN <<>>
    ELSE (IF NoAudio(Head(streams))
          THEN <<ErrorEvent(NoAudioMessage(Head(streams)))>> ELSE <<>>)
         \o NoAudioErrors(Tail(streams))

\* the writers are closed and the selected streams checked for audio: exit
\* code 1 when none has any; the final pass of main follows only with --no-live
CloseWriters ==
    LET had_audio == \E i \in 1..Len(args.transcribe_streams) :
                         ~NoAudio(args.transcribe_streams[i])
    IN  /\ main.pc = "close"
        /\ out' = out \o NoAudioErrors(args.transcribe_streams)
        /\ main' = IF ~had_audio THEN [main EXCEPT !.pc = "exit", !.code = 1]
                   ELSE IF args.no_live THEN [main EXCEPT !.pc = "final", !.i = 1]
                   ELSE [main EXCEPT !.pc = "exit"]
        /\ UNCHANGED <<live, stop_log, run_pipeline_lock, failures>>

\* the final pass of main, a stream without audio: continue
FinalSkip ==
    /\ main.pc = "final"
    /\ NoAudio(MainStream)
    /\ main' = NextOf(Len(args.transcribe_streams), "final", "exit")
    /\ UNCHANGED <<out, live, stop_log, run_pipeline_lock, failures>>

\* the final pass of main, a stream with audio: the snapshot, the temporary
\* container, and `with RUN_PIPELINE_LOCK:` entered
FinalAcquire ==
    /\ main.pc = "final"
    /\ ~NoAudio(MainStream)
    /\ LockFree(run_pipeline_lock)
    /\ run_pipeline_lock' = "main"
    /\ main' = [main EXCEPT !.pc = "run_pipeline"]
    /\ UNCHANGED <<out, live, stop_log, failures>>

\* run_pipeline returns in main: the lock is released and the transcript
\* emitted with finalize=True at the duration of the writer's index
FinalPipelineReturn(turns) ==
    /\ main.pc = "run_pipeline"
    /\ run_pipeline_lock' = ""
    /\ EmitTranscript(MainStream, turns,
                      IndexDuration(writers[MainStream].last_sample_index, sample_rate),
                      TRUE)
    /\ main' = NextOf(Len(args.transcribe_streams), "final", "exit")
    /\ UNCHANGED <<live, stop_log, failures>>

\* run_pipeline raises in main: the lock is released, the error event, continue
FinalPipelineRaise ==
    /\ main.pc = "run_pipeline"
    /\ failures < MaxFailures
    /\ failures' = failures + 1
    /\ run_pipeline_lock' = ""
    /\ out' = Append(out, ErrorEvent("pipeline"))
    /\ main' = NextOf(Len(args.transcribe_streams), "final", "exit")
    /\ UNCHANGED <<live, stop_log>>

\* the threads inside run_pipeline
InPipeline ==
    {s \in DOMAIN live : live[s].pc = "run_pipeline"}
        \cup (IF main.pc = "run_pipeline" THEN {"main"} ELSE {})

writer_vars == <<sample_rate, channels, writers, starts, last_frame>>

emitter_vars == <<finalize_lag, last_emitted_t1_by_stream, last_partial_by_stream,
                  seen_speakers, ncalls, last_call>>

control_vars == <<args, run_pipeline_lock, main, passes, stop_log, skips, failures>>

\* the inputs of a run and the parts looked at on their own
\* the parts added to the model later
part_vars == <<sync, fault, calc, disk>>

other_vars == <<turn_pool, part_vars, pipeline, peer, reader>>

vars == <<sample_rate, channels, writers, out, starts, finalize_lag,
          last_emitted_t1_by_stream, last_partial_by_stream, seen_speakers,
          ncalls, last_call, last_frame, turn_pool, args, live,
          run_pipeline_lock, main, passes, stop_log, skips, failures,
          pipeline, peer, reader, sync, fault, calc, disk>>

NoFrame == [type |-> 0, stream_id |-> 0, pts_us |-> 0, payload |-> <<>>]

NoCall == [stream |-> "", turns |-> <<>>, current_duration |-> 0,
           finalize |-> FALSE, cutoff |-> 0]

\* the state after construction (main, up to the frame loop), for a finalize lag
InitWith(lag) ==
    /\ sample_rate = DefaultSampleRate
    /\ channels = DefaultChannels
    /\ writers = [s \in {} |-> OpenStreamWriter]
    /\ out = <<>>
    /\ starts = 0
    /\ last_frame = NoFrame
    /\ finalize_lag = lag
    /\ last_emitted_t1_by_stream = [s \in Streams |-> 0]
    /\ last_partial_by_stream = [s \in Streams |-> NoPartial]
    /\ seen_speakers = {}
    /\ ncalls = 0
    /\ last_call = NoCall

\* no call has returned at the due tests: no duration is negative
NoSkip == [duration |-> -1, last_processed_duration |-> 0]

NotStopped == [called |-> FALSE, returned |-> FALSE, size_bytes |-> 0]

\* main from the parsed command line to the frame loop: a live processor made
\* and started for every selected stream, unless --no-live
InitControl(a) ==
    /\ args = a
    /\ live = [s \in (IF a.no_live THEN {}
                      ELSE {a.transcribe_streams[i] : i \in 1..Len(a.transcribe_streams)})
                  |-> NewLiveProcessor]
    /\ run_pipeline_lock = ""
    /\ main = [pc |-> "frames", i |-> 0, code |-> 0]
    /\ passes = [s \in Streams |-> <<>>]
    /\ stop_log = [s \in Streams |-> NotStopped]
    /\ skips = [s \in Streams |-> NoSkip]
    /\ failures = 0

\* no pipeline pass, no peer and no write_wav_from_pcm call is looked at
NoPipeline == [pc |-> "none"]

NoPeer == [payload |-> <<>>, sent |-> 0]

NoReader == [pc |-> "none", stream |-> ""]

\* no thread is followed step by step
NoSync == [pending |-> "", written |-> {}]

\* the dispatcher has met no fault
NoFault == [part |-> "", wanted |-> 0, available |-> 0]

\* no function is looked at on its own
NoCalc == [fn |-> ""]

\* no append is followed write by write
NoDisk == [pc |-> "none"]

InitMore == sync = NoSync /\ fault = NoFault /\ calc = NoCalc /\ disk = NoDisk

InitParts == pipeline = NoPipeline /\ peer = NoPeer /\ reader = NoReader /\ InitMore

\* the default of --finalize-lag: 5 s
DefaultLag == 500

Init == InitWith(DefaultLag) /\ turn_pool = {} /\ InitControl(NoLiveArgs) /\ InitParts

InitEmitter ==
    \E lag \in Lags, pool \in TurnPools :
        InitWith(lag) /\ turn_pool = pool /\ InitControl(NoLiveArgs) /\ InitParts

\* ---- the dispatcher's frame loop on START and AUDIO frames

NextWriter ==
    \/ \E sr \in MetaSampleRates, ch \in MetaChannels :
           MeetingStart(sr, ch) /\ UNCHANGED <<emitter_vars, other_vars, control_vars, live>>
    \/ \E id \in StreamIds, p \in Payloads, pts \in PtsValues :
           Audio(id, p, pts) /\ UNCHANGED <<emitter_vars, other_vars, control_vars>>

SpecWriter == Init /\ [][NextWriter]_vars

\* ---- the emitter driven directly: any calls, for either stream

EmitCall(stream_name, turns, current_duration, finalize) ==
    /\ ncalls < MaxCalls
    /\ EmitTranscript(stream_name, turns, current_duration, finalize)
    /\ UNCHANGED <<writer_vars, other_vars, control_vars, live>>

NextEmitter ==
    \E s \in Streams, turns \in Transcripts(turn_pool), d \in Durations, f \in BOOLEAN :
        EmitCall(s, turns, d, f)

SpecEmitter == InitEmitter /\ [][NextEmitter]_vars

\* ---- the emitter called in turn by the workers of both streams: more calls,
\* over one pair of turns of two speakers
MaxInterleaved == 3

InterleavedPool ==
    {[speaker |-> "SPEAKER_00", start |-> 0, end |-> 3, text |-> "hi"],
     [speaker |-> "SPEAKER_01", start |-> 0, end |-> 6, text |-> "ok"]}

InitInterleaved ==
    InitWith(3) /\ turn_pool = InterleavedPool /\ InitControl(NoLiveArgs) /\ InitParts

\* a worker's call of emit_transcript: the emitter's lock lets in one call at
\* a time, so the calls of the two workers come one after the other, in any order
WorkerCall(stream_name, turns, current_duration, finalize) ==
    /\ ncalls < MaxInterleaved
    /\ EmitTranscript(stream_name, turns, current_duration, finalize)
    /\ UNCHANGED <<writer_vars, other_vars, control_vars, live>>

NextInterleaved ==
    \E s \in Streams, turns \in Transcripts(turn_pool), d \in Durations, f \in BOOLEAN :
        WorkerCall(s, turns, d, f)

SpecInterleaved == InitInterleaved /\ [][NextInterleaved]_vars

\* ---- the emitter driven with the transcripts and durations of Scenario E

InitScenario ==
    /\ InitWith(DefaultLag)
    /\ InitControl(NoLiveArgs)
    /\ turn_pool = {ScenarioTurn1, ScenarioTurn2, ScenarioTurn3}
    /\ InitParts

NextScenario ==
    \E s \in Streams, turns \in ScenarioTranscripts, d \in ScenarioDurations,
       f \in BOOLEAN :
        EmitCall(s, turns, d, f)

SpecScenario == InitScenario /\ [][NextScenario]_vars

\* ---- the whole backend: the dispatcher and the live-processor workers

InitLive ==
    \E lag \in LiveLags, a \in LiveArgs :
        InitWith(lag) /\ turn_pool = {LiveTurn} /\ InitControl(a) /\ InitParts

\* what a step of a worker outside emit_transcript leaves alone
worker_rest == <<emitter_vars, starts, last_frame, other_vars, args, main, stop_log>>

\* the same, for the steps that reach no due test
worker_rest_skips == <<worker_rest, skips>>

\* what a step of main after the frame loop leaves alone
main_rest == <<writer_vars, other_vars, args, passes, skips>>

LiveStep(pts_values) ==
    \/ \E sr \in LiveSampleRates, ch \in LiveChannels :
           starts < MaxLiveStarts /\ MeetingStart(sr, ch) /\ UNCHANGED <<emitter_vars, other_vars, control_vars, live>>
    \/ \E id \in LiveStreamIds, p \in LivePayloads, pts \in pts_values :
           Audio(id, p, pts) /\ UNCHANGED <<emitter_vars, other_vars, control_vars>>
    \/ MeetingStop /\ UNCHANGED <<emitter_vars, main_rest>>
    \/ EndOfInput /\ UNCHANGED <<emitter_vars, main_rest>>
    \/ StopSignal /\ UNCHANGED <<emitter_vars, main_rest>>
    \/ StopJoin /\ UNCHANGED <<emitter_vars, main_rest>>
    \/ CloseWriters /\ UNCHANGED <<emitter_vars, main_rest>>
    \/ FinalSkip /\ UNCHANGED <<emitter_vars, main_rest>>
    \/ FinalAcquire /\ UNCHANGED <<emitter_vars, main_rest>>
    \/ \E turns \in LiveTranscripts : FinalPipelineReturn(turns) /\ UNCHANGED main_rest
    \/ FinalPipelineRaise /\ UNCHANGED <<emitter_vars, main_rest>>
    \/ \E s \in Streams :
           \/ WorkerLoop(s) /\ UNCHANGED worker_rest_skips
           \/ WorkerSnapshot(s) /\ UNCHANGED worker_rest_skips
           \/ WorkerStat(s) /\ UNCHANGED worker_rest
           \/ WorkerStart(s) /\ UNCHANGED worker_rest_skips
           \/ WorkerAcquire(s) /\ UNCHANGED worker_rest_skips
           \/ \E turns \in LiveTranscripts :
                  WorkerPipelineReturn(s, turns) /\ UNCHANGED worker_rest_skips
           \/ WorkerPipelineRaise(s) /\ UNCHANGED worker_rest_skips
           \/ WorkerError(s) /\ UNCHANGED worker_rest_skips
           \/ WorkerReport(s) /\ UNCHANGED worker_rest_skips
           \/ WorkerEmit(s)
                  /\ UNCHANGED <<starts, last_frame, other_vars, args, main, stop_log, skips>>

\* ---- at most one live processor: one stream selected, or --no-live
NextLive == LiveStep(LivePts)

SpecLive == InitLive /\ [][NextLive]_vars

\* the worker threads are scheduled: a worker at the top of its loop goes on
\* (the wait is bounded by 0.5 s), and one in the except branch returns
WorkerGoesOn(s) ==
    (WorkerLoop(s) \/ WorkerError(s)) /\ UNCHANGED worker_rest_skips

SpecLiveFair == SpecLive /\ \A s \in Streams : WF_vars(WorkerGoesOn(s))

\* ---- both streams selected: two workers, or the final pass of main over both
InitLiveBoth ==
    \E lag \in LiveLags, a \in BothArgs :
        InitWith(lag) /\ turn_pool = {LiveTurn} /\ InitControl(a) /\ InitParts

NextLiveBoth == LiveStep(BothPts)

SpecLiveBoth == InitLiveBoth /\ [][NextLiveBoth]_vars

\* ------------------------------------------------------------ one pipeline pass

\* the words an ASR engine may return: text, start and end in ticks
HelloWord == [text |-> "hello", start |-> 100, end |-> 200]

EarlyWord == [text |-> "hi", start |-> 0, end |-> 50]

EmptyWord == [text |-> "uh", start |-> 50, end |-> 50]

MaxWords == 2

AsrResults == SeqsUpTo({HelloWord, EarlyWord, EmptyWord}, MaxWords)

\* the segments a diariser may return
ScenarioSegment == [start |-> 50, end |-> 150, speaker |-> "SPEAKER_00"]

DiarResults == {<<>>, <<ScenarioSegment>>}

\* the timestamp offsets a caller may ask for, in ticks: none, and 10.0 s
TimestampOffsets == {0, 1000}

\* the raw sizes of the snapshot a pass is made for
PassSizes == {0, 4}

\* sorted(words, key=lambda w: w.start): stable, by insertion from the left
RECURSIVE InsertByStart(_, _)
InsertByStart(sorted, w) ==
    IF sorted = <<>> THEN <<w>>
    ELSE IF Head(sorted).start <= w.start
         THEN <<Head(sorted)>> \o InsertByStart(Tail(sorted), w)
         ELSE <<w>> \o sorted

RECURSIVE SortedByStart(_)
SortedByStart(words) ==
    IF words = <<>> THEN <<>>
    ELSE InsertByStart(SortedByStart(SubSeq(words, 1, Len(words) - 1)),
                       words[Len(words)])

\* [w for w in sorted_words if w.end > w.start]
RECURSIVE ValidWords(_)
ValidWords(words) ==
    IF words = <<>> THEN <<>>
    ELSE (IF Head(words).end > Head(words).start THEN <<Head(words)>> ELSE <<>>)
         \o ValidWords(Tail(words))

\* merge_transcript_with_diarisation, as far as times go: the words of the
\* merged transcript are the valid words in order of start, each with the
\* text, start and end the ASR engine gave it, and the segments are the
\* diariser's own list (speaker labels and turns are left out here)
MergeTranscriptWithDiarisation(words, segments) ==
    [words |-> ValidWords(SortedByStart(words)), segments |-> segments]

NoMerged == [words |-> <<>>, segments |-> <<>>]

\* a call of _maybe_process, or a turn of the final loop of main, at
\* write_wav_from_pcm: the snapshot's size, the timestamp offset the caller
\* wants applied, no temporary file yet
NewPipeline(size_bytes, offset) ==
    [pc |-> "write_wav_from_pcm", size_bytes |-> size_bytes,
     timestamp_offset |-> offset,
     temp_wav |-> FALSE, normalised |-> FALSE,
     transcript |-> <<>>, segments |-> <<>>, merged |-> NoMerged,
     raised |-> "", result |-> ""]

\* write_wav_from_pcm on an empty snapshot: None, and the caller gives up
MaterialiseEmpty ==
    /\ pipeline.pc = "write_wav_from_pcm"
    /\ pipeline.size_bytes <= 0
    /\ pipeline' = [pipeline EXCEPT !.pc = "ended", !.result = "no_wav"]

\* tempfile.NamedTemporaryFile(..., delete=False): the container file exists
MaterialiseCreate ==
    /\ pipeline.pc = "write_wav_from_pcm"
    /\ pipeline.size_bytes > 0
    /\ pipeline' = [pipeline EXCEPT !.pc = "container", !.temp_wav = TRUE]

\* the container is written and its path returned
ContainerWritten ==
    /\ pipeline.pc = "container"
    /\ pipeline' = [pipeline EXCEPT !.pc = "check_ffmpeg"]

\* wave.open, open or writeframes raises (OSError): write_wav_from_pcm is
\* called outside the caller's try, so the exception leaves the caller
ContainerRaise ==
    /\ pipeline.pc = "container"
    /\ pipeline' = [pipeline EXCEPT !.pc = "ended", !.raised = "write_wav_from_pcm",
                                    !.result = "propagated"]

\* run_pipeline: `if not check_ffmpeg(): raise RuntimeError`
CheckFfmpeg(found) ==
    /\ pipeline.pc = "check_ffmpeg"
    /\ pipeline' = IF found THEN [pipeline EXCEPT !.pc = "normalise_audio"]
                   ELSE [pipeline EXCEPT !.pc = "except", !.raised = "check_ffmpeg"]

\* normalise_audio up to the ffmpeg run: its own check_ffmpeg, then
\* tempfile.mkstemp: the normalised file exists
NormaliseCreate(found) ==
    /\ pipeline.pc = "normalise_audio"
    /\ pipeline' = IF found THEN [pipeline EXCEPT !.pc = "ffmpeg", !.normalised = TRUE]
                   ELSE [pipeline EXCEPT !.pc = "except", !.raised = "normalise_audio"]

\* subprocess.run(cmd) and `if result.returncode != 0: raise RuntimeError`:
\* on success the path is returned and run_pipeline enters its try; on
\* failure the exception leaves normalise_audio and run_pipeline
\* (temp_wav = normalise_audio(...) stands before the try)
FfmpegDone(returncode) ==
    /\ pipeline.pc = "ffmpeg"
    /\ pipeline' = IF returncode = 0 THEN [pipeline EXCEPT !.pc = "asr"]
                   ELSE [pipeline EXCEPT !.pc = "except", !.raised = "normalise_audio"]

\* asr.transcribe returns
AsrReturn(words) ==
    /\ pipeline.pc = "asr"
    /\ pipeline' = [pipeline EXCEPT !.pc = "diarise", !.transcript = words]

\* ASRModel(...) or asr.transcribe raises
AsrRaise ==
    /\ pipeline.pc = "asr"
    /\ pipeline' = [pipeline EXCEPT !.pc = "finally", !.raised = "asr"]

\* diarizer.diarise returns
DiariseReturn(segments) ==
    /\ pipeline.pc = "diarise"
    /\ pipeline' = [pipeline EXCEPT !.pc = "merge", !.segments = segments]

\* the diariser raises
DiariseRaise ==
    /\ pipeline.pc = "diarise"
    /\ pipeline' = [pipeline EXCEPT !.pc = "finally", !.raised = "diarise"]

\* merged = merge_transcript_with_diarisation(transcript, segments, ...)
MergeReturn ==
    /\ pipeline.pc = "merge"
    /\ pipeline' = [pipeline EXCEPT
                       !.pc = "finally",
                       !.merged = MergeTranscriptWithDiarisation(pipeline.transcript,
                                                                 pipeline.segments)]

\* merge_transcript_with_diarisation raises
MergeRaise ==
    /\ pipeline.pc = "merge"
    /\ pipeline' = [pipeline EXCEPT !.pc = "finally", !.raised = "merge"]

\* the finally of run_pipeline: Path(temp_wav).unlink(missing_ok=True); then
\* the merged transcript is returned or the exception goes on to the caller
PipelineFinally ==
    /\ pipeline.pc = "finally"
    /\ pipeline' = [pipeline EXCEPT
                       !.normalised = FALSE,
                       !.pc = IF pipeline.raised = "" THEN "caller_finally" ELSE "except"]

\* the caller's `except Exception`: the error event, then return False
\* (continue, in main), through the finally
CallerExcept ==
    /\ pipeline.pc = "except"
    /\ pipeline' = [pipeline EXCEPT !.pc = "caller_finally"]

\* the caller's finally: temp_wav.unlink(missing_ok=True); the pass has ended
CallerFinally ==
    /\ pipeline.pc = "caller_finally"
    /\ pipeline' = [pipeline EXCEPT
                       !.temp_wav = FALSE, !.pc = "ended",
                       !.result = IF pipeline.raised = "" THEN "merged" ELSE "error"]

InitPipeline ==
    /\ InitWith(DefaultLag) /\ turn_pool = {} /\ InitControl(NoLiveArgs)
    /\ peer = NoPeer /\ reader = NoReader /\ InitMore
    /\ \E size_bytes \in PassSizes, offset \in TimestampOffsets :
           pipeline = NewPipeline(size_bytes, offset)

pipeline_rest == <<writer_vars, emitter_vars, out, control_vars, live, turn_pool, part_vars,
                   peer, reader>>

NextPipeline ==
    \/ MaterialiseEmpty /\ UNCHANGED pipeline_rest
    \/ MaterialiseCreate /\ UNCHANGED pipeline_rest
    \/ ContainerWritten /\ UNCHANGED pipeline_rest
    \/ ContainerRaise /\ UNCHANGED pipeline_rest
    \/ \E found \in BOOLEAN : CheckFfmpeg(found) /\ UNCHANGED pipeline_rest
    \/ \E found \in BOOLEAN : NormaliseCreate(found) /\ UNCHANGED pipeline_rest
    \/ \E returncode \in {0, 1} : FfmpegDone(returncode) /\ UNCHANGED pipeline_rest
    \/ \E words \in AsrResults : AsrReturn(words) /\ UNCHANGED pipeline_rest
    \/ AsrRaise /\ UNCHANGED pipeline_rest
    \/ \E segments \in DiarResults : DiariseReturn(segments) /\ UNCHANGED pipeline_rest
    \/ DiariseRaise /\ UNCHANGED pipeline_rest
    \/ MergeReturn /\ UNCHANGED pipeline_rest
    \/ MergeRaise /\ UNCHANGED pipeline_rest
    \/ PipelineFinally /\ UNCHANGED pipeline_rest
    \/ CallerExcept /\ UNCHANGED pipeline_rest
    \/ CallerFinally /\ UNCHANGED pipeline_rest

SpecPipeline == InitPipeline /\ [][NextPipeline]_vars

\* ------------------------------------------------------------ contiguous frames

\* the frames a peer sends in a row
MaxFrames == 3

ContiguousSampleRates == {16000, 44100, 48000}

\* the number of frames of a payload
FramesOf(payload, ch) == Len(payload) \div BytesPerFrame(ch)

\* the start time of a sample in whole microseconds: the exact time when it
\* is whole, else the integer just below or just above it
PtsOfSample(sample, sr) ==
    {(sample * MicrosPerSecond) \div sr, (sample * MicrosPerSecond + sr - 1) \div sr}

\* MEETING_START from a peer that will send one payload of whole frames again
\* and again over one stream
PeerStart(sr, ch, stream_id, payload) ==
    /\ Len(payload) > 0
    /\ Len(payload) % BytesPerFrame(ch) = 0
    /\ MeetingStart(sr, ch)
    /\ peer' = [payload |-> payload, sent |-> 0, stream_id |-> stream_id]

\* the peer's next AUDIO frame: the payload, stamped with the start time of
\* the sample that follows the frames sent so far
PeerSend(pts_us) ==
    /\ starts > 0
    /\ peer.sent < MaxFrames
    /\ pts_us \in PtsOfSample(peer.sent * FramesOf(peer.payload, channels), sample_rate)
    /\ Audio(peer.stream_id, peer.payload, pts_us)
    /\ peer' = [peer EXCEPT !.sent = @ + 1]

NextContiguous ==
    \/ \E sr \in ContiguousSampleRates, ch \in MetaChannels, id \in LiveStreamIds,
          p \in Payloads :
           PeerStart(sr, ch, id, p)
               /\ UNCHANGED <<emitter_vars, turn_pool, part_vars, pipeline, reader, control_vars, live>>
    \/ \E pts \in 0..(MaxFrames * MaxPayload * MicrosPerSecond) \div 16000 :
           PeerSend(pts)
               /\ UNCHANGED <<emitter_vars, turn_pool, part_vars, pipeline, reader, control_vars>>

SpecContiguous == Init /\ [][NextContiguous]_vars

\* ------------------------------------------------------------ frames ahead of the writer

\* timestamps that fall ahead of a short stream: 125 us, and the 62500 us of
\* Scenario D (sample 1000 at 16 kHz)
GapPts == {0, 125, 62500}

\* an AUDIO frame for the system stream, counted
GapSend(payload, pts_us) ==
    /\ peer.sent < MaxFrames
    /\ Audio(STREAM_SYSTEM, payload, pts_us)
    /\ peer' = [peer EXCEPT !.sent = @ + 1]

NextGap ==
    \/ \E sr \in MetaSampleRates, ch \in MetaChannels :
           MeetingStart(sr, ch) /\ UNCHANGED <<emitter_vars, other_vars, control_vars, live>>
    \/ \E p \in Payloads, pts \in GapPts :
           GapSend(p, pts)
               /\ UNCHANGED <<emitter_vars, turn_pool, part_vars, pipeline, reader, control_vars>>

SpecGap == Init /\ [][NextGap]_vars

\* ------------------------------------------------------------ snapshot and container

\* the bytes one read of write_wav_from_pcm asks for at most: 1024 * 1024 in
\* the code, a few bytes here so that appends fall between two reads
ChunkBytes == 3

SnapshotPts == {0, 125}

SnapshotSampleRates == {16000}

\* the start offsets a caller may want a container to begin at
StartBytes == {0, 2, 4}

\* pcm.read(n) with the file position at pos: at most n bytes, fewer at the
\* end of the file, none at or past it
ReadFile(file, pos, n) == SubSeq(file, pos + 1, Min(Len(file), pos + n))

\* the whole of the snapshot taken, an odd trailing frame included
RemainingUntruncated(snapshot) == snapshot.size_bytes

\* remaining = snapshot.size_bytes - (snapshot.size_bytes % bytes_per_frame)
Remaining(snapshot) ==
    snapshot.size_bytes - (snapshot.size_bytes % BytesPerFrame(snapshot.channels))

\* a full chunk asked for whatever is left to read
ChunkLimitFull(remaining) == ChunkBytes

\* min(1024 * 1024, remaining)
ChunkLimit(remaining) == Min(ChunkBytes, remaining)

\* snapshot_stream for the writer of stream s with a sample rate and channels:
\* the size of the raw file now; the caller wants the container to begin at
\* start_byte
SnapshotStream(s, sr, ch, start_byte) ==
    /\ reader.pc = "none"
    /\ s \in DOMAIN writers
    /\ start_byte % BytesPerFrame(ch) = 0
    /\ start_byte <= Len(writers[s].pcm)
    /\ reader' = [pc |-> "write_wav_from_pcm", stream |-> s,
                  snapshot |-> [sample_rate |-> sr, channels |-> ch,
                                size_bytes |-> Len(writers[s].pcm)],
                  start_byte |-> start_byte,
                  remaining |-> 0, pos |-> 0, wav |-> <<>>, temp_path |-> FALSE,
                  raw |-> writers[s].pcm, starts |-> starts, reads |-> <<>>]

\* write_wav_from_pcm up to the loop: None for an empty snapshot, else the
\* temporary file, remaining = size_bytes - size_bytes % bytes_per_frame, the
\* container's header and the raw file opened at position 0
WriteWavOpen ==
    /\ reader.pc = "write_wav_from_pcm"
    /\ reader' =
          IF reader.snapshot.size_bytes <= 0 THEN [reader EXCEPT !.pc = "done"]
          ELSE [reader EXCEPT
                   !.pc = "read", !.temp_path = TRUE,
                   !.remaining = Remaining(reader.snapshot)]

\* one turn of the loop: chunk = pcm.read(min(1024 * 1024, remaining)); the
\* loop is left on an empty chunk, else the chunk goes to the container
WriteWavRead ==
    LET chunk == ReadFile(writers[reader.stream].pcm, reader.pos,
                          ChunkLimit(reader.remaining))
    IN  /\ reader.pc = "read"
        /\ reader.remaining > 0
        /\ reader' =
              IF chunk = <<>> THEN [reader EXCEPT !.pc = "done"]
              ELSE [reader EXCEPT !.wav = @ \o chunk,
                                  !.remaining = @ - Len(chunk),
                                  !.pos = @ + Len(chunk),
                                  !.reads = Append(@, [upto |-> reader.pos + Len(chunk),
                                                       file_size |->
                                                           Len(writers[reader.stream].pcm)])]

\* `while remaining > 0` fails: the files are closed, temp_path is returned
WriteWavClose ==
    /\ reader.pc = "read"
    /\ reader.remaining = 0
    /\ reader' = [reader EXCEPT !.pc = "done"]

reader_rest == <<emitter_vars, turn_pool, part_vars, pipeline, peer, control_vars, live>>

NextSnapshot ==
    \/ \E sr \in SnapshotSampleRates, ch \in MetaChannels :
           MeetingStart(sr, ch) /\ UNCHANGED <<emitter_vars, other_vars, control_vars, live>>
    \/ \E p \in Payloads, pts \in SnapshotPts :
           Audio(STREAM_SYSTEM, p, pts) /\ UNCHANGED <<emitter_vars, other_vars, control_vars>>
    \/ \E sr \in SnapshotSampleRates, ch \in MetaChannels, start_byte \in StartBytes :
           SnapshotStream("system", sr, ch, start_byte)
               /\ UNCHANGED <<writer_vars, out, reader_rest>>
    \/ WriteWavOpen /\ UNCHANGED <<writer_vars, out, reader_rest>>
    \/ WriteWavRead /\ UNCHANGED <<writer_vars, out, reader_rest>>
    \/ WriteWavClose /\ UNCHANGED <<writer_vars, out, reader_rest>>

SpecSnapshot == Init /\ [][NextSnapshot]_vars

\* ------------------------------------------------------------ locks and standard output

\* the four locks of the backend: state.lock, stdout_lock, RUN_PIPELINE_LOCK
\* and TranscriptEmitter._lock
STATE_MUTEX == "state"

EMIT_MUTEX == "emit"

PIPELINE_MUTEX == "pipeline"

EMITTER_LOCK == "emitter"

Locks == {STATE_MUTEX, EMIT_MUTEX, PIPELINE_MUTEX, EMITTER_LOCK}

\* the dispatcher thread and the worker threads of the live processors
Threads == {"main"} \cup Streams

\* frames the dispatcher reads before STOP or the end of the input
MaxSyncFrames == 3

\* non-final passes of one worker
MaxSyncPasses == 1

\* records one emit_transcript call writes, when it writes any
MaxRecords == 1

\* the command lines: --no-live, --transcribe-stream, --emit-meters
SyncArgs ==
    [no_live : BOOLEAN, transcribe_streams : {<<"system">>, BothStreams},
     emit_meters : BOOLEAN]

\* how a pass goes: not due; ffmpeg missing, so that run_pipeline raises; a
\* transcript without turns; a transcript whose turns make records
Outcomes == {"skip", "raise", "empty", "records"}

\* the steps of a thread, in program order: a lock entered or left, one call
\* of sys.stdout.write, and the reads and writes of shared data
Do(op, arg) == [op |-> op, arg |-> arg]

\* `with lock:` around a body
With(lock, body) == <<Do("acquire", lock)>> \o body \o <<Do("release", lock)>>

RECURSIVE Times(_, _)
Times(n, ops) == IF n = 0 THEN <<>> ELSE ops \o Times(n - 1, ops)

\* emit_jsonl writing the line with no lock taken
EmitJsonlUnlocked == <<Do("write", "line")>>

\* emit_jsonl(obj, lock): the whole line in one write, and the flush, in the lock
EmitJsonl == With(EMIT_MUTEX, <<Do("write", "line")>>)

\* print(msg): the text and the line end are two writes to sys.stdout, and no
\* lock is taken
PrintLine == <<Do("write", "text"), Do("write", "end")>>

\* ASRModel._ensure_loaded on a fresh ASRModel: two prints around the load
EnsureLoaded == PrintLine \o PrintLine

\* run_pipeline: check_ffmpeg, and with ffmpeg there the normaliser, the ASR
\* engine (a new ASRModel every call), the diariser (Senko, quiet unless
\* --verbose) and the merge
RunPipeline(outcome) == IF outcome = "raise" THEN <<>> ELSE EnsureLoaded

\* _snapshot with state.lock kept after the read
SnapshotHeld(s) == <<Do("acquire", STATE_MUTEX), Do("snapshot", s)>>

\* LiveProcessor._snapshot: the writer and the meta read in state.lock, the
\* size of the raw file after it
Snapshot(s) == With(STATE_MUTEX, <<Do("snapshot", s)>>) \o <<Do("stat", s)>>

\* the records of one emit_transcript call written with state.lock taken
EmitRecordsInState(n) == With(STATE_MUTEX, Times(n, EmitJsonl))

\* the emit_jsonl calls of one emit_transcript call
EmitRecords(n) == Times(n, EmitJsonl)

\* TranscriptEmitter.emit_transcript: nothing without turns; else the records
\* of the call, all inside self._lock
EmitTranscriptOps(outcome) ==
    IF outcome = "records" THEN With(EMITTER_LOCK, EmitRecords(MaxRecords)) ELSE <<>>

\* try: with RUN_PIPELINE_LOCK: run_pipeline(...); except: the error event
PipelineCall(outcome) ==
    With(PIPELINE_MUTEX, RunPipeline(outcome))
        \o (IF outcome = "raise" THEN EmitJsonl ELSE <<>>)

\* LiveProcessor._maybe_process: the snapshot and the due tests, the start
\* event, the pipeline call, the done event and emit_transcript
MaybeProcessOps(s, outcome) ==
    Snapshot(s)
        \o (IF outcome = "skip" THEN <<>>
            ELSE EmitJsonl \o PipelineCall(outcome)
                 \o (IF outcome = "raise" THEN <<>>
                     ELSE EmitJsonl \o EmitTranscriptOps(outcome)))

\* MSG_MEETING_START: the meta and the writers set in state.lock, then the
\* meeting_started event
MeetingStartOps == With(STATE_MUTEX, <<Do("open", "")>>) \o EmitJsonl

\* MSG_AUDIO for a stream: in state.lock, when the stream has a writer, the
\* append, the meter event under --emit-meters, and notify_duration
AudioOps(s, has_writer, emit_meters) ==
    With(STATE_MUTEX,
         IF has_writer
         THEN <<Do("append", s)>> \o (IF emit_meters THEN EmitJsonl ELSE <<>>)
         ELSE <<>>)

\* LiveProcessor.stop for every live processor, in order: the signal, the join
RECURSIVE StopOps(_, _)
StopOps(streams, no_live) ==
    IF streams = <<>> \/ no_live THEN <<>>
    ELSE <<Do("stop", Head(streams)), Do("join", Head(streams))>>
             \o StopOps(Tail(streams), no_live)

\* the no_audio_for_stream_ error events of main
RECURSIVE NoAudioOps(_, _)
NoAudioOps(streams, has_audio) ==
    IF streams = <<>> THEN <<>>
    ELSE (IF has_audio[Head(streams)] THEN <<>> ELSE EmitJsonl)
             \o NoAudioOps(Tail(streams), has_audio)

\* the final pass of main under --no-live, over the selected streams with audio
RECURSIVE FinalOps(_, _, _)
FinalOps(streams, has_audio, outcome) ==
    IF streams = <<>> THEN <<>>
    ELSE (IF has_audio[Head(streams)]
          THEN PipelineCall(outcome)
                   \o (IF outcome = "raise" THEN <<>> ELSE EmitTranscriptOps(outcome))
          ELSE <<>>)
             \o FinalOps(Tail(streams), has_audio, outcome)

\* main after the frame loop: the live processors stopped, the writers read in
\* state.lock and closed, the streams checked for audio, the final pass
ShutdownOps(a, has_audio, outcome) ==
    StopOps(a.transcribe_streams, a.no_live)
        \o With(STATE_MUTEX, <<>>)
        \o NoAudioOps(a.transcribe_streams, has_audio)
        \o (IF a.no_live
               /\ \E i \in 1..Len(a.transcribe_streams) : has_audio[a.transcribe_streams[i]]
            THEN FinalOps(a.transcribe_streams, has_audio, outcome)
            ELSE <<>>)

\* main up to the frame loop: the locks free, no writer, the live processors
\* started
NewSync(a) ==
    [args |-> a,
     lock |-> [l \in Locks |-> ""],
     todo |-> [t \in Threads |-> <<>>],
     phase |-> [t \in Threads |->
                   IF t = "main" THEN "run"
                   ELSE IF ~a.no_live /\ \E i \in 1..Len(a.transcribe_streams) :
                                            a.transcribe_streams[i] = t
                        THEN "run" ELSE "none"],
     opened |-> FALSE,
     has_audio |-> [s \in Streams |-> FALSE],
     stopped |-> [s \in Streams |-> FALSE],
     frames |-> 0,
     passes |-> [s \in Streams |-> 0],
     pending |-> "",
     written |-> {}]

\* the locks a thread holds, and the lock it is waiting for or about to take
Held(t) == {l \in Locks : sync.lock[l] = t}

Wants(t) ==
    IF sync.todo[t] # <<>> /\ Head(sync.todo[t]).op = "acquire"
    THEN Head(sync.todo[t]).arg ELSE ""

\* the thread has run to its end
Ended(t) == sync.phase[t] = "last" /\ sync.todo[t] = <<>>

\* the dispatcher reads a START, AUDIO or SCREENSHOT frame
DispatcherRead(msg_type, s) ==
    /\ sync.phase["main"] = "run"
    /\ sync.todo["main"] = <<>>
    /\ sync.frames < MaxSyncFrames
    /\ sync' = [sync EXCEPT
           !.frames = @ + 1,
           !.todo["main"] =
               IF msg_type = "start" THEN MeetingStartOps
               ELSE IF msg_type = "audio"
                    THEN AudioOps(s, sync.opened, sync.args.emit_meters)
               ELSE EmitJsonl]

\* the dispatcher reads STOP (the meeting_stopped event) or finds the input
\* closed, and leaves the loop
DispatcherLeave(stop_frame, outcome) ==
    /\ sync.phase["main"] = "run"
    /\ sync.todo["main"] = <<>>
    /\ sync' = [sync EXCEPT
           !.phase["main"] = "last",
           !.todo["main"] =
               (IF stop_frame THEN EmitJsonl ELSE <<>>)
                   \o ShutdownOps(sync.args, sync.has_audio, outcome)]

\* _run: the test of _stop_event at the top of the loop, then a call of
\* _maybe_process, the final one once the stop is seen
WorkerBegin(s, outcome) ==
    /\ sync.phase[s] = "run"
    /\ sync.todo[s] = <<>>
    /\ IF sync.stopped[s]
       THEN /\ outcome # "skip"
            /\ sync' = [sync EXCEPT !.phase[s] = "last",
                                    !.todo[s] = MaybeProcessOps(s, outcome)]
       ELSE /\ sync.passes[s] < MaxSyncPasses
            /\ sync' = [sync EXCEPT !.passes[s] = @ + 1,
                                    !.todo[s] = MaybeProcessOps(s, outcome)]

\* a thread enters a lock that is free
SyncAcquire(t) ==
    /\ sync.todo[t] # <<>>
    /\ Head(sync.todo[t]).op = "acquire"
    /\ sync.lock[Head(sync.todo[t]).arg] = ""
    /\ sync' = [sync EXCEPT !.lock[Head(sync.todo[t]).arg] = t,
                            !.todo[t] = Tail(@)]

\* a thread leaves a lock
SyncRelease(t) ==
    /\ sync.todo[t] # <<>>
    /\ Head(sync.todo[t]).op = "release"
    /\ sync' = [sync EXCEPT !.lock[Head(sync.todo[t]).arg] = "",
                            !.todo[t] = Tail(@)]

\* one sys.stdout.write: what is written, by whom, whether stdout_lock is the
\* writer's, and whose unfinished line it lands on
SyncWrite(t) ==
    /\ sync.todo[t] # <<>>
    /\ Head(sync.todo[t]).op = "write"
    /\ sync' = [sync EXCEPT
           !.written = @ \cup {[thread |-> t, kind |-> Head(sync.todo[t]).arg,
                                locked |-> sync.lock[EMIT_MUTEX] = t,
                                after |-> sync.pending]},
           !.pending = IF Head(sync.todo[t]).arg = "text" THEN t ELSE "",
           !.todo[t] = Tail(@)]

\* the dispatcher's work inside state.lock: the writers opened on truncated
\* files, or a payload appended
SyncData(t) ==
    /\ sync.todo[t] # <<>>
    /\ Head(sync.todo[t]).op \in {"open", "append"}
    /\ sync' = [sync EXCEPT
           !.opened = TRUE,
           !.has_audio = IF Head(sync.todo[t]).op = "open"
                         THEN [s \in Streams |-> FALSE]
                         ELSE [@ EXCEPT ![Head(sync.todo[t]).arg] = TRUE],
           !.todo[t] = Tail(@)]

\* the worker's reads: no writer in _snapshot, or an empty raw file, ends the
\* call (of its steps only the one that follows the read, the leaving of
\* state.lock, is still run)
SyncSnapshot(t) ==
    /\ sync.todo[t] # <<>>
    /\ Head(sync.todo[t]).op \in {"snapshot", "stat"}
    /\ sync' = [sync EXCEPT
           !.todo[t] =
               IF Head(@).op = "snapshot"
               THEN (IF sync.opened THEN Tail(@)
                     ELSE IF Tail(@) = <<>> THEN <<>> ELSE <<Head(Tail(@))>>)
               ELSE (IF sync.has_audio[Head(@).arg] THEN Tail(@) ELSE <<>>)]

\* LiveProcessor.stop: the signal, and the join that waits for the thread
SyncStop(t) ==
    /\ sync.todo[t] # <<>>
    /\ \/ /\ Head(sync.todo[t]).op = "stop"
          /\ sync' = [sync EXCEPT !.stopped[Head(sync.todo[t]).arg] = TRUE,
                                  !.todo[t] = Tail(@)]
       \/ /\ Head(sync.todo[t]).op = "join"
          /\ Ended(Head(sync.todo[t]).arg)
          /\ sync' = [sync EXCEPT !.todo[t] = Tail(@)]

InitSync ==
    /\ InitWith(DefaultLag) /\ turn_pool = {} /\ InitControl(NoLiveArgs)
    /\ pipeline = NoPipeline /\ peer = NoPeer /\ reader = NoReader
    /\ fault = NoFault /\ calc = NoCalc /\ disk = NoDisk
    /\ \E a \in SyncArgs : sync = NewSync(a)

sync_rest == <<writer_vars, emitter_vars, out, control_vars, live, turn_pool,
               pipeline, peer, reader, fault, calc, disk>>

NextSync ==
    \/ \E msg_type \in {"start", "audio", "screenshot"}, s \in Streams :
           DispatcherRead(msg_type, s) /\ UNCHANGED sync_rest
    \/ \E stop_frame \in BOOLEAN, outcome \in Outcomes \ {"skip"} :
           DispatcherLeave(stop_frame, outcome) /\ UNCHANGED sync_rest
    \/ \E s \in Streams, outcome \in Outcomes :
           WorkerBegin(s, outcome) /\ UNCHANGED sync_rest
    \/ \E t \in Threads :
           \/ SyncAcquire(t) /\ UNCHANGED sync_rest
           \/ SyncRelease(t) /\ UNCHANGED sync_rest
           \/ SyncWrite(t) /\ UNCHANGED sync_rest
           \/ SyncData(t) /\ UNCHANGED sync_rest
           \/ SyncSnapshot(t) /\ UNCHANGED sync_rest
           \/ SyncStop(t) /\ UNCHANGED sync_rest

SpecSync == InitSync /\ [][NextSync]_vars

\* ------------------------------------------------------------ the input closes, an append fails

\* HDR_STRUCT.size: type (1), stream (1), pts_us (8), payload_len (4)
HDR_SIZE == 14

\* bytes left on the input when it closes inside a header
HeaderTails == {1, 13}

\* payload lengths a header declares
MaxPayloadLen == 2

\* read_exact(f, n) on an input with `available` bytes left before its end:
\* f.read(n) gives min(available, n) bytes; TRUE when the data is returned,
\* FALSE when EOFError is raised
ReadExact(available, n) == Min(available, n) = n

\* the header read finds the input closed inside the header: the EOFError is
\* caught and the loop left
TruncatedHeader(available) ==
    /\ main.pc = "frames"
    /\ ~ReadExact(available, HDR_SIZE)
    /\ main' = AfterFrames
    /\ fault' = [part |-> "header", wanted |-> HDR_SIZE, available |-> available]
    /\ UNCHANGED <<out, live, stop_log, run_pipeline_lock, failures>>

\* the header is read, and the read of the payload it declares finds the
\* input closed: the EOFError is raised outside the try of the loop and ends
\* main (the interpreter exits with code 1)
TruncatedPayload(payload_len, available) ==
    /\ main.pc = "frames"
    /\ ReadExact(HDR_SIZE + available, HDR_SIZE)
    /\ payload_len # 0
    /\ ~ReadExact(available, payload_len)
    /\ main' = [main EXCEPT !.pc = "raised", !.code = 1]
    /\ fault' = [part |-> "payload", wanted |-> payload_len, available |-> available]
    /\ UNCHANGED <<out, live, stop_log, run_pipeline_lock, failures>>

\* MSG_AUDIO with an append that fails: write_aligned_audio raises OSError at
\* its first write (nothing is written) or, for a frame that starts where the
\* writer stands or before, at the write to the raw file that follows the write
\* to the container.  `with state.lock:` is left, nothing catches the
\* exception and main ends (the interpreter exits with code 1).
AudioRaise(stream_id, payload, pts_us, at) ==
    LET s == StreamOfId(stream_id)
        w == writers[s]
        written == WriteAlignedAudio(w, payload, pts_us, sample_rate, channels)
    IN  /\ main.pc = "frames"
        /\ s \in DOMAIN writers
        /\ written # w
        /\ at = "pcm" => StartSample(pts_us, sample_rate) <= w.last_sample_index
        /\ writers' = [writers EXCEPT ![s] =
                           IF at = "pcm" THEN [w EXCEPT !.wav = written.wav] ELSE w]
        /\ last_frame' = [type |-> MSG_AUDIO, stream_id |-> stream_id, pts_us |-> pts_us,
                          payload |-> payload]
        /\ main' = [main EXCEPT !.pc = "raised", !.code = 1]
        /\ fault' = [part |-> "append", wanted |-> Len(written.pcm) - Len(w.pcm),
                      available |-> 0]
        /\ UNCHANGED <<sample_rate, channels, starts, out, live, stop_log,
                       run_pipeline_lock, failures>>

\* a step of _maybe_process outside its try raises: pcm_path.stat() in
\* snapshot_stream, write_wav_from_pcm (after the live_process_start event), or
\* emit_transcript (taken at its start).  Neither _maybe_process nor _run
\* catches it: the exception leaves _run and the thread ends.
WorkerRaise(s, part) ==
    /\ s \in DOMAIN live
    /\ live[s].pc = (IF part = "snapshot" THEN "stat"
                     ELSE IF part = "container" THEN "start" ELSE "emit")
    /\ out' = IF part = "container"
              THEN Append(out, StatusEvent("live_process_start", s, live[s].duration,
                                           live[s].finalize))
              ELSE out
    /\ passes' = IF part = "container"
                 THEN [passes EXCEPT ![s] =
                          Append(@, [finalize |-> live[s].finalize,
                                     duration |-> live[s].duration,
                                     last_processed_duration |->
                                         live[s].last_processed_duration])]
                 ELSE passes
    /\ live' = [live EXCEPT ![s].pc = "dead"]
    /\ fault' = [part |-> part, wanted |-> 0, available |-> 0]
    /\ UNCHANGED <<writers, sample_rate, channels, run_pipeline_lock, failures>>

faults_rest == <<emitter_vars, writer_vars, turn_pool, pipeline, peer, reader, sync, disk,
                calc, args, passes, skips>>

NextFaults ==
    \/ LiveStep(BothPts)
    \/ \E available \in HeaderTails :
           TruncatedHeader(available) /\ UNCHANGED faults_rest
    \/ \E payload_len \in 1..MaxPayloadLen, available \in 0..MaxPayloadLen :
           TruncatedPayload(payload_len, available) /\ UNCHANGED faults_rest
    \/ \E id \in LiveStreamIds, p \in LivePayloads, pts \in BothPts, at \in {"wav", "pcm"} :
           AudioRaise(id, p, pts, at)
               /\ UNCHANGED <<emitter_vars, turn_pool, pipeline, peer, reader, sync, disk,
                              calc, args, passes, skips>>
    \/ \E s \in Streams, part \in {"snapshot", "container", "emit"} :
           WorkerRaise(s, part)
               /\ UNCHANGED <<emitter_vars, starts, last_frame, turn_pool, pipeline, peer,
                              reader, sync, disk, calc, args, main, stop_log, skips>>

SpecFaults == InitLive /\ [][NextFaults]_vars

\* ------------------------------------------------------------ turn text (merge.py)

\* a text is the sequence of its characters; the characters of the word texts
\* looked at: a letter, the space, a closing punctuation mark and the tab
Chars == {"a", " ", ".", "\t"}

\* the closing and opening marks of _join_words_smart, as the strings of the
\* code: ".,!?;:)]}\"'" and "([{\"'"
ClosingMarks == <<".", ",", "!", "?", ";", ":", ")", "]", "}", "\"", "'">>

OpeningMarks == <<"(", "[", "{", "\"", "'">>

\* what str.strip() removes, among the characters looked at
Whitespace == {" ", "\t"}

\* longest text of a word that is joined alone, and of a word joined with others
MaxTextLen == 4

MaxShortTextLen == 2

\* most words joined
MaxJoined == 3

\* `text in marks` for two strings: text occurs in marks as a substring
IsSubstring(text, marks) ==
    \E i \in 0..(Len(marks) - Len(text)) : SubSeq(marks, i + 1, i + Len(text)) = text

\* the part _join_words_smart appends for a word, given the parts so far
Part(parts, text) ==
    IF parts # <<>> /\ IsSubstring(text, ClosingMarks) THEN text
    ELSE IF IsSubstring(text, OpeningMarks) /\ parts # <<>> THEN <<" ">> \o text
    ELSE IF parts # <<>> THEN <<" ">> \o text
    ELSE text

\* the loop over the words: a word without text is skipped
RECURSIVE Parts(_, _)
Parts(words, parts) ==
    IF words = <<>> THEN parts
    ELSE Parts(Tail(words),
               IF Head(words).text = <<>> THEN parts
               ELSE Append(parts, Part(parts, Head(words).text)))

\* "".join(parts)
RECURSIVE Concat(_)
Concat(parts) == IF parts = <<>> THEN <<>> ELSE Head(parts) \o Concat(Tail(parts))

\* `"  " in result`
HasDoubleSpace(text) == \E i \in 1..(Len(text) - 1) : text[i] = " " /\ text[i + 1] = " "

\* result.replace("  ", " "): from the left, every pair of spaces found becomes
\* one space and the search goes on after the pair
RECURSIVE ReplaceDoubleSpaces(_)
ReplaceDoubleSpaces(text) ==
    IF Len(text) < 2 THEN text
    ELSE IF text[1] = " " /\ text[2] = " "
         THEN <<" ">> \o ReplaceDoubleSpaces(SubSeq(text, 3, Len(text)))
         ELSE <<text[1]>> \o ReplaceDoubleSpaces(Tail(text))

\* the replacement made once, whatever it leaves
CollapseOnce(text) == ReplaceDoubleSpaces(text)

\* while "  " in result: result = result.replace("  ", " ")
RECURSIVE Collapse(_)
Collapse(text) ==
    IF HasDoubleSpace(text) THEN Collapse(ReplaceDoubleSpaces(text)) ELSE text

\* str.strip(): the whitespace before the first and after the last other
\* character removed
RECURSIVE Strip(_)
Strip(text) ==
    IF text = <<>> THEN text
    ELSE IF Head(text) \in Whitespace THEN Strip(Tail(text))
    ELSE IF text[Len(text)] \in Whitespace THEN Strip(SubSeq(text, 1, Len(text) - 1))
    ELSE text

\* _join_words_smart
JoinWordsSmart(words) ==
    IF words = <<>> THEN <<>>
    ELSE Strip(Collapse(Concat(Parts(words, <<>>))))

\* the texts of at most n characters
TextsUpTo(n) == SeqsUpTo(Chars, n)

\* the word lists joined: one word of any text, or up to MaxJoined short words
JoinInputs ==
    {<<[text |-> t]>> : t \in TextsUpTo(MaxTextLen)}
        \cup SeqsUpTo({[text |-> t] : t \in TextsUpTo(MaxShortTextLen)}, MaxJoined)

\* a call of _join_words_smart returns
JoinWords ==
    /\ calc.fn = "_join_words_smart"
    /\ ~calc.returned
    /\ calc' = [calc EXCEPT !.returned = TRUE, !.result = JoinWordsSmart(calc.words)]

InitJoin ==
    /\ InitWith(DefaultLag) /\ turn_pool = {} /\ InitControl(NoLiveArgs)
    /\ pipeline = NoPipeline /\ peer = NoPeer /\ reader = NoReader
    /\ sync = NoSync /\ fault = NoFault /\ disk = NoDisk
    /\ \E words \in JoinInputs :
           calc = [fn |-> "_join_words_smart", words |-> words, returned |-> FALSE,
                   result |-> <<>>]

calc_rest == <<writer_vars, emitter_vars, out, control_vars, live, turn_pool,
               pipeline, peer, reader, sync, fault, disk>>

NextJoin == JoinWords /\ UNCHANGED calc_rest

SpecJoin == InitJoin /\ [][NextJoin]_vars

\* ------------------------------------------------------------ turns (merge.py)

\* times of words_to_turns are counted in steps of the caller's choice; the
\* latest time of a word, the most words grouped
MaxWordTime == 3

MaxGrouped == 3

\* the thresholds a call is made with
GapThresholds == {0, 1}

MaxTurnDurations == {1, 2}

\* the labelled words: a text, a start, an end not before it, a speaker
LabelledWords ==
    {[text |-> <<"a">>, start |-> s, end |-> e, speaker |-> sp] :
        s \in 0..MaxWordTime, e \in 0..MaxWordTime, sp \in {"SPEAKER_00", "SPEAKER_01"}}
        \ {w \in [text : {<<"a">>}, start : 0..MaxWordTime, end : 0..MaxWordTime,
                    speaker : {"SPEAKER_00", "SPEAKER_01"}] : w.end < w.start}

\* the test of words_to_turns without the limit on the length of a turn
BreaksTurnAnyLength(word, current_words, current_speaker, gap_threshold, max_turn_duration) ==
    \/ word.speaker # current_speaker
    \/ word.start - current_words[Len(current_words)].end > gap_threshold

\* the test of words_to_turns: the word ends the current turn
BreaksTurn(word, current_words, current_speaker, gap_threshold, max_turn_duration) ==
    LET gap            == word.start - current_words[Len(current_words)].end
        speaker_change == word.speaker # current_speaker
        turn_duration  == word.end - current_words[1].start
    IN  speaker_change \/ gap > gap_threshold \/ turn_duration > max_turn_duration

\* the turn with the start of its last word for its start
SpeakerTurnLastStart(current_words, current_speaker) ==
    [speaker |-> current_speaker,
     start   |-> current_words[Len(current_words)].start,
     end     |-> current_words[Len(current_words)].end,
     text    |-> JoinWordsSmart(current_words),
     words   |-> current_words]

\* SpeakerTurn(...) of the current words
SpeakerTurn(current_words, current_speaker) ==
    [speaker |-> current_speaker,
     start   |-> current_words[1].start,
     end     |-> current_words[Len(current_words)].end,
     text    |-> JoinWordsSmart(current_words),
     words   |-> current_words]

\* the loop of words_to_turns over words[1:], and the last turn after it
RECURSIVE TurnsLoop(_, _, _, _, _, _)
TurnsLoop(rest, turns, current_words, current_speaker, gap_threshold, max_turn_duration) ==
    IF rest = <<>>
    THEN IF current_words # <<>>
         THEN Append(turns, SpeakerTurn(current_words, current_speaker))
         ELSE turns
    ELSE IF BreaksTurn(Head(rest), current_words, current_speaker,
                       gap_threshold, max_turn_duration)
         THEN TurnsLoop(Tail(rest),
                        Append(turns, SpeakerTurn(current_words, current_speaker)),
                        <<Head(rest)>>, Head(rest).speaker,
                        gap_threshold, max_turn_duration)
         ELSE TurnsLoop(Tail(rest), turns, Append(current_words, Head(rest)),
                        current_speaker, gap_threshold, max_turn_duration)

\* words_to_turns
WordsToTurns(words, gap_threshold, max_turn_duration) ==
    IF words = <<>> THEN <<>>
    ELSE TurnsLoop(Tail(words), <<>>, <<Head(words)>>, Head(words).speaker,
                   gap_threshold, max_turn_duration)

\* a call of words_to_turns returns
GroupWords ==
    /\ calc.fn = "words_to_turns"
    /\ ~calc.returned
    /\ calc' = [calc EXCEPT !.returned = TRUE,
                            !.result = WordsToTurns(calc.words, calc.gap_threshold,
                                                    calc.max_turn_duration)]

InitTurns ==
    /\ InitWith(DefaultLag) /\ turn_pool = {} /\ InitControl(NoLiveArgs)
    /\ pipeline = NoPipeline /\ peer = NoPeer /\ reader = NoReader
    /\ sync = NoSync /\ fault = NoFault /\ disk = NoDisk
    /\ \E words \in SeqsUpTo(LabelledWords, MaxGrouped), g \in GapThresholds,
          d \in MaxTurnDurations :
           calc = [fn |-> "words_to_turns", words |-> words, gap_threshold |-> g,
                   max_turn_duration |-> d, returned |-> FALSE, result |-> <<>>]

NextTurns == GroupWords /\ UNCHANGED calc_rest

SpecTurns == InitTurns /\ [][NextTurns]_vars

\* ------------------------------------------------------------ speakers of words (merge.py)

UNKNOWN == "UNKNOWN"

\* None, where a speaker is expected
NoSpeaker == ""

\* float("inf"), where a distance is expected: no distance is negative
Infinity == -1

\* `range(i + 1, min(i + 10, len(result)))`: the 10 of the look-ahead
LOOK_AHEAD == 10

\* latest time of a word or a segment, most words and most segments of a call
MaxAssignTime == 3

MaxAssignWords == 2

MaxSegments == 2

\* the tolerances a call is made with, in the unit of the times
Tolerances == {0, 1}

\* the words of the ASR engine: any start and end, a valid word or not
AsrWords ==
    {[text |-> <<"a">>, start |-> s, end |-> e] :
        s \in 0..MaxAssignTime, e \in 0..MaxAssignTime}

\* the segments of a diariser: end after start, a speaker label
DiarSegments ==
    {g \in [start : 0..MaxAssignTime, end : 0..MaxAssignTime, speaker : Speakers] :
        g.start < g.end}

\* Scenario F (spec section 8), in tenths of a second: words at [0.0, 0.5],
\* [0.6, 1.0] and [1.1, 1.5], segments [0.0, 0.5] and [1.1, 1.5] of SPEAKER_01,
\* tolerance 0.0
ScenarioWords ==
    <<[text |-> <<"a">>, start |-> 0, end |-> 5],
      [text |-> <<"a">>, start |-> 6, end |-> 10],
      [text |-> <<"a">>, start |-> 11, end |-> 15]>>

ScenarioSegments ==
    <<[start |-> 0, end |-> 5, speaker |-> "SPEAKER_01"],
      [start |-> 11, end |-> 15, speaker |-> "SPEAKER_01"]>>

\* overlap = max(0, min(word.end, seg.end) - max(word.start, seg.start))
Overlap(word, seg) == Max(0, Min(word.end, seg.end) - Max(word.start, seg.start))

\* the distance of the word's middle from the segment, doubled: word_mid is
\* (word.start + word.end) / 2, so twice the distance is a whole number
Distance2(word, seg) ==
    LET word_mid2 == word.start + word.end
    IN  IF word_mid2 < 2 * seg.start THEN 2 * seg.start - word_mid2
        ELSE IF word_mid2 > 2 * seg.end THEN word_mid2 - 2 * seg.end
        ELSE 0

\* the overlap test taken with >=: of equal overlaps the last wins
BetterOverlapOrEqual(overlap, best_overlap) == overlap >= best_overlap

\* `if overlap > best_overlap`
BetterOverlap(overlap, best_overlap) == overlap > best_overlap

\* `if dist < min_distance`, min_distance being float("inf") at first
Nearer(dist2, min_distance2) == min_distance2 = Infinity \/ dist2 < min_distance2

\* one turn of the loop over the segments, on the four locals of a word
SegmentScan(acc, word, seg) ==
    LET overlap == Overlap(word, seg)
        dist2   == Distance2(word, seg)
        better  == BetterOverlap(overlap, acc.best_overlap)
        nearer  == Nearer(dist2, acc.min_distance2)
    IN  [best_speaker    |-> IF better THEN seg.speaker ELSE acc.best_speaker,
         best_overlap    |-> IF better THEN overlap ELSE acc.best_overlap,
         nearest_speaker |-> IF nearer THEN seg.speaker ELSE acc.nearest_speaker,
         min_distance2   |-> IF nearer THEN dist2 ELSE acc.min_distance2]

RECURSIVE SegmentsScan(_, _, _)
SegmentsScan(acc, word, segments) ==
    IF segments = <<>> THEN acc
    ELSE SegmentsScan(SegmentScan(acc, word, Head(segments)), word, Tail(segments))

\* the speaker a word gets before the interpolation
BestSpeaker(word, segments, tolerance) ==
    LET acc == SegmentsScan([best_speaker |-> UNKNOWN, best_overlap |-> 0,
                             nearest_speaker |-> NoSpeaker, min_distance2 |-> Infinity],
                            word, segments)
    IN  IF /\ acc.best_overlap = 0
           /\ acc.nearest_speaker # NoSpeaker
           /\ acc.min_distance2 <= 2 * tolerance
        THEN acc.nearest_speaker
        ELSE acc.best_speaker

\* LabelledWord(text, start, end, speaker)
LabelledWord(word, speaker) ==
    [text |-> word.text, start |-> word.start, end |-> word.end, speaker |-> speaker]

\* the loop over the sorted valid words: the list `labelled` before the
\* interpolation
Labelled(words, segments, tolerance) ==
    LET sorted_words == ValidWords(SortedByStart(words))
    IN  [i \in 1..Len(sorted_words) |->
            LabelledWord(sorted_words[i], BestSpeaker(sorted_words[i], segments, tolerance))]

\* the look-ahead without its limit: the next known speaker anywhere after i
NextKnownAnywhere(result, i) ==
    LET known == {j \in (i + 1)..Len(result) : result[j].speaker # UNKNOWN}
    IN  IF known = {} THEN NoSpeaker
        ELSE result[CHOOSE j \in known : \A k \in known : j <= k].speaker

\* the look-ahead of the forward pass for the word at place i (counted from 1;
\* the code's i is one less): for j in range(i + 1, min(i + 10, len(result))),
\* the first known speaker, None when there is none
NextKnown(result, i) ==
    LET known == {j \in (i + 1)..Min(i + LOOK_AHEAD - 1, Len(result)) :
                      result[j].speaker # UNKNOWN}
    IN  IF known = {} THEN NoSpeaker
        ELSE result[CHOOSE j \in known : \A k \in known : j <= k].speaker

\* the forward pass from place i on, last_known being the last known speaker
\* before it
RECURSIVE ForwardPass(_, _, _)
ForwardPass(result, i, last_known) ==
    IF i > Len(result) THEN result
    ELSE IF result[i].speaker # UNKNOWN
         THEN ForwardPass(result, i + 1, result[i].speaker)
    ELSE IF last_known # NoSpeaker
         THEN LET next_known == NextKnown(result, i)
              IN  IF next_known = NoSpeaker \/ next_known = last_known
                  THEN ForwardPass([result EXCEPT ![i] = LabelledWord(@, last_known)],
                                   i + 1, last_known)
                  ELSE ForwardPass(result, i + 1, last_known)
    ELSE ForwardPass(result, i + 1, last_known)

\* no backward pass
BackwardPassNone(result, i, next_known) == result

\* the backward pass from place i down, next_known being the known speaker
\* that follows
RECURSIVE BackwardPass(_, _, _)
BackwardPass(result, i, next_known) ==
    IF i < 1 THEN result
    ELSE IF result[i].speaker # UNKNOWN
         THEN BackwardPass(result, i - 1, result[i].speaker)
    ELSE IF next_known # NoSpeaker
         THEN BackwardPass([result EXCEPT ![i] = LabelledWord(@, next_known)],
                           i - 1, next_known)
    ELSE BackwardPass(result, i - 1, next_known)

\* the words returned as they came
InterpolateNothing(words) == words

\* _interpolate_unknown_speakers
InterpolateUnknownSpeakers(words) ==
    IF words = <<>> THEN words
    ELSE LET forward == ForwardPass(words, 1, NoSpeaker)
         IN  BackwardPass(forward, Len(forward), NoSpeaker)

\* assign_speakers_to_words
AssignSpeakersToWords(words, segments, tolerance) ==
    InterpolateUnknownSpeakers(Labelled(words, segments, tolerance))

\* the calls looked at: the small words and segments, and Scenario F
AssignInputs ==
    [words : SeqsUpTo(AsrWords, MaxAssignWords),
     segments : SeqsUpTo(DiarSegments, MaxSegments),
     tolerance : Tolerances]
        \cup {[words |-> ScenarioWords, segments |-> ScenarioSegments,
               tolerance |-> 0]}

\* a call of assign_speakers_to_words returns; the list it had before the
\* interpolation is kept beside the result
AssignSpeakers ==
    /\ calc.fn = "assign_speakers_to_words"
    /\ ~calc.returned
    /\ calc' = [calc EXCEPT
                   !.returned = TRUE,
                   !.labelled = Labelled(calc.words, calc.segments, calc.tolerance),
                   !.result = AssignSpeakersToWords(calc.words, calc.segments,
                                                    calc.tolerance)]

InitAssign ==
    /\ InitWith(DefaultLag) /\ turn_pool = {} /\ InitControl(NoLiveArgs)
    /\ pipeline = NoPipeline /\ peer = NoPeer /\ reader = NoReader
    /\ sync = NoSync /\ fault = NoFault /\ disk = NoDisk
    /\ \E in \in AssignInputs :
           calc = [fn |-> "assign_speakers_to_words", words |-> in.words,
                   segments |-> in.segments, tolerance |-> in.tolerance,
                   returned |-> FALSE, labelled |-> <<>>, result |-> <<>>]

NextAssign == AssignSpeakers /\ UNCHANGED calc_rest

SpecAssign == InitAssign /\ [][NextAssign]_vars

\* ---- _interpolate_unknown_speakers on its own

\* most words at either end of a list, most UNKNOWN words in a row between
MaxEdge == 2

MaxRun == 10

\* the labels of a list: any labels at both ends, UNKNOWN in a row between
LabelLists ==
    {head \o [i \in 1..k |-> UNKNOWN] \o tail :
        head \in SeqsUpTo(Speakers \cup {UNKNOWN}, MaxEdge),
        tail \in SeqsUpTo(Speakers \cup {UNKNOWN}, MaxEdge),
        k \in 0..MaxRun}

\* the labelled words of a list of labels: word i from i - 1 to i
WordsOfLabels(labels) ==
    [i \in 1..Len(labels) |->
        [text |-> <<"a">>, start |-> i - 1, end |-> i, speaker |-> labels[i]]]

\* a call of _interpolate_unknown_speakers returns; the list after the forward
\* pass is kept beside the result
InterpolateWords ==
    /\ calc.fn = "_interpolate_unknown_speakers"
    /\ ~calc.returned
    /\ calc' = [calc EXCEPT
                   !.returned = TRUE,
                   !.forward = IF calc.words = <<>> THEN <<>>
                               ELSE ForwardPass(calc.words, 1, NoSpeaker),
                   !.result = InterpolateUnknownSpeakers(calc.words)]

InitInterpolate ==
    /\ InitWith(DefaultLag) /\ turn_pool = {} /\ InitControl(NoLiveArgs)
    /\ pipeline = NoPipeline /\ peer = NoPeer /\ reader = NoReader
    /\ sync = NoSync /\ fault = NoFault /\ disk = NoDisk
    /\ \E labels \in LabelLists :
           calc = [fn |-> "_interpolate_unknown_speakers",
                   words |-> WordsOfLabels(labels),
                   returned |-> FALSE, forward |-> <<>>, result |-> <<>>]

NextInterpolate == InterpolateWords /\ UNCHANGED calc_rest

SpecInterpolate == InitInterpolate /\ [][NextInterpolate]_vars

\* ------------------------------------------------------------ screenshot frames

MSG_SCREENSHOT_EVENT == 2

\* the keys and the values of the JSON objects a SCREENSHOT frame may carry
ScreenshotKeys == {"type", "path"}

ScreenshotValues == {"segment", "a.png"}

\* json.loads(payload): an object (a dict from keys to values), or a value
\* that is no object, here an array
JsonObjects == UNION {[keys -> ScreenshotValues] : keys \in SUBSET ScreenshotKeys}

ScreenshotPayloads ==
    {[json |-> "none"], [json |-> "array"]}
        \cup {[json |-> "object", value |-> evt] : evt \in JsonObjects}

\* {"type": "screenshot", **evt}: in a dict display a later key replaces an
\* earlier one, so a key of evt named type replaces "screenshot"
ScreenshotEvent(evt) ==
    [k \in {"type"} \cup DOMAIN evt |-> IF k \in DOMAIN evt THEN evt[k] ELSE "screenshot"]

\* MSG_SCREENSHOT_EVENT: nothing for an empty payload; else the event made of
\* the payload's object; `**evt` raises TypeError for a value that is no
\* mapping, and nothing catches it
Screenshot(payload) ==
    /\ main.pc = "frames"
    /\ peer.sent < MaxFrames
    /\ peer' = [peer EXCEPT !.sent = @ + 1]
    /\ last_frame' = [type |-> MSG_SCREENSHOT_EVENT, stream_id |-> 0, pts_us |-> 0,
                      payload |-> payload]
    /\ out' = IF payload.json = "object"
              THEN Append(out, ScreenshotEvent(payload.value))
              ELSE out
    /\ main' = IF payload.json = "array"
               THEN [main EXCEPT !.pc = "raised", !.code = 1]
               ELSE main
    /\ UNCHANGED <<sample_rate, channels, writers, starts>>

NextScreenshot ==
    \/ \E sr \in MetaSampleRates, ch \in MetaChannels :
           MeetingStart(sr, ch) /\ UNCHANGED <<emitter_vars, other_vars, control_vars, live>>
    \/ \E payload \in ScreenshotPayloads :
           Screenshot(payload)
               /\ UNCHANGED <<emitter_vars, turn_pool, part_vars, pipeline, reader, live,
                              args, run_pipeline_lock, passes, stop_log, skips, failures>>

SpecScreenshot == Init /\ [][NextScreenshot]_vars

\* ------------------------------------------------------------ the raw file during an append

\* the frames of these runs: for the system stream, of one sample, at 0 ms,
\* 10 ms and 30 ms (one sample per tick: contiguous, overlapping, or after a gap)
AppendStreamIds == {0}

AppendPts == {0, 10000, 30000}

\* --transcribe-stream system, live
AppendArgs == {a \in LiveArgs : ~a.no_live /\ a.transcribe_streams = <<"system">>}

\* the dispatcher is between two frames; no raw file holds a byte
NewDisk ==
    [pc |-> "idle", stream |-> "", payload |-> <<>>,
     size |-> [s \in Streams |-> 0],
     settled |-> [s \in Streams |-> {0}],
     seen |-> [s \in Streams |-> {}]]

InitAppend ==
    \E a \in AppendArgs :
        /\ InitWith(1) /\ turn_pool = {LiveTurn} /\ InitControl(a)
        /\ pipeline = NoPipeline /\ peer = NoPeer /\ reader = NoReader
        /\ sync = NoSync /\ fault = NoFault /\ calc = NoCalc
        /\ disk = NewDisk

\* pcm = open(pcm_path, "wb") is a buffered file: after a write the file on
\* disk holds what it held, or the bytes up to the end of one of the writes
\* made since (the buffer was passed on), as the buffer's size and the sizes of
\* the writes have it
OnDiskAfterWrite(size, ends) == {n \in ends \cup {size} : n >= size}

\* MSG_MEETING_START in state.lock: the raw files are opened anew, empty
AppendMeetingStart(sr, ch) ==
    /\ disk.pc = "idle"
    /\ MeetingStart(sr, ch)
    /\ disk' = [disk EXCEPT !.size = [s \in Streams |-> 0],
                            !.settled = [s \in Streams |-> @[s] \cup {0}]]

\* notify_duration for the stream of the append, then state.lock is released:
\* the live processors after that
Notified(s, w) ==
    IF s \in DOMAIN live
    THEN [live EXCEPT ![s] =
              NotifyDuration(@, IndexDuration(w.last_sample_index, sample_rate))]
    ELSE live

\* MSG_AUDIO for a stream with a writer: state.lock is taken and
\* write_aligned_audio runs up to its final writes: it returns at once on a
\* payload without a whole frame or wholly overlapping (notify_duration
\* follows, and the lock is released); it writes the silence of a gap, and
\* advances the counters by it
AppendBegin(stream_id, payload, pts_us) ==
    LET s == StreamOfId(stream_id)
        w == writers[s]
        bytes_per_frame == BytesPerFrame(channels)
        usable == Usable(payload, channels)
        whole == TakeBytes(payload, usable)
        start_sample == StartSample(pts_us, sample_rate)
        overlap_frames == w.last_sample_index - start_sample
        drop_bytes == overlap_frames * bytes_per_frame
        silent == InsertSilence(w, start_sample - w.last_sample_index, bytes_per_frame)
    IN  /\ main.pc = "frames"
        /\ disk.pc = "idle"
        /\ s \in DOMAIN writers
        /\ last_frame' = [type |-> MSG_AUDIO, stream_id |-> stream_id,
                          pts_us |-> pts_us, payload |-> payload]
        /\ IF \/ Len(payload) = 0
              \/ usable <= 0
              \/ start_sample < w.last_sample_index /\ drop_bytes >= Len(whole)
           THEN /\ live' = Notified(s, w)
                /\ UNCHANGED <<writers, disk>>
           ELSE IF start_sample > w.last_sample_index
           THEN /\ writers' = [writers EXCEPT ![s] = silent]
                /\ \E n \in OnDiskAfterWrite(disk.size[s], {Len(silent.pcm)}) :
                       disk' = [disk EXCEPT !.pc = "write", !.stream = s,
                                            !.payload = whole, !.size[s] = n]
                /\ UNCHANGED live
           ELSE /\ disk' = [disk EXCEPT
                               !.pc = "write", !.stream = s,
                               !.payload = IF start_sample < w.last_sample_index
                                           THEN DropBytes(whole, drop_bytes)
                                           ELSE whole]
                /\ UNCHANGED <<writers, live>>
        /\ UNCHANGED <<sample_rate, channels, out, starts>>

\* writer.wav.writeframes(payload); writer.pcm.write(payload).  From here on
\* the file may hold the whole append, so the size the append ends with is
\* counted with the sizes between appends
AppendWrite ==
    LET s == disk.stream
        w == writers[s]
    IN  /\ disk.pc = "write"
        /\ writers' = [writers EXCEPT ![s] =
                           [w EXCEPT !.wav = @ \o disk.payload,
                                     !.pcm = @ \o disk.payload]]
        /\ \E n \in OnDiskAfterWrite(disk.size[s],
                                      {Len(w.pcm), Len(w.pcm) + Len(disk.payload)}) :
               disk' = [disk EXCEPT !.pc = "flush", !.size[s] = n,
                                    !.settled[s] = @ \cup {Len(w.pcm) + Len(disk.payload)}]
        /\ UNCHANGED <<sample_rate, channels, out, starts, last_frame, live>>

\* writer.pcm.flush(), the counters advanced by the payload, and
\* write_aligned_audio returns; notify_duration, and state.lock is released
AppendFlush ==
    LET s == disk.stream
        w == writers[s]
        flushed == [w EXCEPT
                       !.last_sample_index =
                           @ + (Len(disk.payload) \div BytesPerFrame(channels)),
                       !.bytes_written = @ + Len(disk.payload)]
    IN  /\ disk.pc = "flush"
        /\ writers' = [writers EXCEPT ![s] = flushed]
        /\ disk' = [disk EXCEPT
                       !.pc = "idle", !.stream = "", !.payload = <<>>,
                       !.size[s] = Len(w.pcm),
                       !.settled[s] =
                           @ \cup {flushed.last_sample_index * BytesPerFrame(channels)}]
        /\ live' = Notified(s, flushed)
        /\ UNCHANGED <<sample_rate, channels, out, starts, last_frame>>

\* _snapshot: `with self._state.lock:` is entered only while the dispatcher
\* is outside its own
WorkerSnapshotLocked(s) ==
    /\ disk.pc = "idle"
    /\ WorkerSnapshot(s)

\* pcm_path.stat().st_size: the size of the file on disk at that moment
SizeOnDisk(s) == disk.size[s]

\* snapshot_stream and the tests of _maybe_process, the size seen recorded
WorkerStatDisk(s) ==
    /\ WorkerStatOf(s, SizeOnDisk(s))
    /\ disk' = [disk EXCEPT !.seen[s] = @ \cup {SizeOnDisk(s)}]

\* what the parts of this run leave alone
append_rest == <<emitter_vars, turn_pool, pipeline, peer, reader, sync, fault, calc>>

NextAppend ==
    \/ \E sr \in LiveSampleRates, ch \in LiveChannels :
           /\ starts < MaxLiveStarts
           /\ AppendMeetingStart(sr, ch)
           /\ UNCHANGED <<append_rest, control_vars, live>>
    \/ \E id \in AppendStreamIds, p \in LivePayloads, pts \in AppendPts :
           AppendBegin(id, p, pts) /\ UNCHANGED <<append_rest, control_vars>>
    \/ AppendWrite /\ UNCHANGED <<append_rest, control_vars>>
    \/ AppendFlush /\ UNCHANGED <<append_rest, control_vars>>
    \/ \E s \in Streams :
           \/ WorkerLoop(s) /\ UNCHANGED worker_rest_skips
           \/ WorkerSnapshotLocked(s) /\ UNCHANGED worker_rest_skips
           \/ WorkerStatDisk(s)
                  /\ UNCHANGED <<append_rest, starts, last_frame, args, main, stop_log>>
           \/ WorkerStart(s) /\ UNCHANGED worker_rest_skips
           \/ WorkerAcquire(s) /\ UNCHANGED worker_rest_skips
           \/ \E turns \in LiveTranscripts :
                  WorkerPipelineReturn(s, turns) /\ UNCHANGED worker_rest_skips
           \/ WorkerPipelineRaise(s) /\ UNCHANGED worker_rest_skips
           \/ WorkerError(s) /\ UNCHANGED worker_rest_skips
           \/ WorkerReport(s) /\ UNCHANGED worker_rest_skips
           \/ WorkerEmit(s)
                  /\ UNCHANGED <<starts, last_frame, other_vars, args, main, stop_log, skips>>

SpecAppend == InitAppend /\ [][NextAppend]_vars

\* ------------------------------------------------------------ the worker's wait

\* the wait without its timeout: it returns only on the event
WaitReturnsOnEvent(lp) == lp.event

\* self._event.wait(timeout=0.5) returns: at once when the event is set, and
\* after half a second at the latest when it is not
WaitReturns(lp) == TRUE

InitProgress ==
    \E lag \in LiveLags, a \in AppendArgs :
        InitWith(lag) /\ turn_pool = {LiveTurn} /\ InitControl(a) /\ InitParts

\* _run, the test of the loop: `while not self._stop_event.is_set()`; with
\* the event set the loop is left, for the final call when one is asked for
WorkerLoopTest(s) ==
    /\ s \in DOMAIN live
    /\ live[s].pc = "loop"
    /\ live' = [live EXCEPT ![s] =
                   IF @.stop_event
                   THEN IF FinalPassRequested(@)
                        THEN [@ EXCEPT !.pc = "snapshot", !.finalize = TRUE]
                        ELSE [@ EXCEPT !.pc = "done"]
                   ELSE [@ EXCEPT !.pc = "wait"]]
    /\ UNCHANGED <<writers, sample_rate, channels, out, passes, run_pipeline_lock, failures>>

\* self._event.wait(timeout=0.5) returns, on the event or on the timeout
WorkerWait(s) ==
    /\ s \in DOMAIN live
    /\ live[s].pc = "wait"
    /\ WaitReturns(live[s])
    /\ live' = [live EXCEPT ![s].pc = IF live[s].event THEN "woken" ELSE "timed_out"]
    /\ UNCHANGED <<writers, sample_rate, channels, out, passes, run_pipeline_lock, failures>>

\* self._event.clear(), whether the wait saw the event or not, and
\* _maybe_process(finalize=False) is called
WorkerClear(s) ==
    /\ s \in DOMAIN live
    /\ live[s].pc \in {"woken", "timed_out"}
    /\ live' = [live EXCEPT ![s] =
                   [@ EXCEPT !.event = FALSE, !.pc = "snapshot", !.finalize = FALSE]]
    /\ UNCHANGED <<writers, sample_rate, channels, out, passes, run_pipeline_lock, failures>>

\* a step of the worker thread of a stream
WorkerRuns(s) ==
    \/ WorkerLoopTest(s) /\ UNCHANGED worker_rest_skips
    \/ WorkerWait(s) /\ UNCHANGED worker_rest_skips
    \/ WorkerClear(s) /\ UNCHANGED worker_rest_skips
    \/ WorkerSnapshot(s) /\ UNCHANGED worker_rest_skips
    \/ WorkerStat(s) /\ UNCHANGED worker_rest
    \/ WorkerStart(s) /\ UNCHANGED worker_rest_skips
    \/ WorkerAcquire(s) /\ UNCHANGED worker_rest_skips
    \/ \E turns \in LiveTranscripts :
           WorkerPipelineReturn(s, turns) /\ UNCHANGED worker_rest_skips
    \/ WorkerPipelineRaise(s) /\ UNCHANGED worker_rest_skips
    \/ WorkerError(s) /\ UNCHANGED worker_rest_skips
    \/ WorkerReport(s) /\ UNCHANGED worker_rest_skips
    \/ WorkerEmit(s)
           /\ UNCHANGED <<starts, last_frame, other_vars, args, main, stop_log, skips>>

\* the dispatcher with one live processor, up to the closing of the writers;
\* a second MEETING_START opens the files anew
NextProgress ==
    \/ \E sr \in LiveSampleRates, ch \in LiveChannels :
           /\ MeetingStart(sr, ch)
           /\ UNCHANGED <<emitter_vars, other_vars, control_vars, live>>
    \/ \E id \in AppendStreamIds, p \in LivePayloads, pts \in LivePts :
           Audio(id, p, pts) /\ UNCHANGED <<emitter_vars, other_vars, control_vars>>
    \/ MeetingStop /\ UNCHANGED <<emitter_vars, main_rest>>
    \/ EndOfInput /\ UNCHANGED <<emitter_vars, main_rest>>
    \/ StopSignal /\ UNCHANGED <<emitter_vars, main_rest>>
    \/ StopJoin /\ UNCHANGED <<emitter_vars, main_rest>>
    \/ CloseWriters /\ UNCHANGED <<emitter_vars, main_rest>>
    \/ \E s \in Streams : WorkerRuns(s)

\* the worker threads are scheduled, every wait ends (on the event or on its
\* timeout), RUN_PIPELINE_LOCK is free for the only worker, and run_pipeline
\* comes back, with a transcript or with an exception
SpecProgress ==
    InitProgress /\ [][NextProgress]_vars /\ \A s \in Streams : WF_vars(WorkerRuns(s))

\* ------------------------------------------------------------ properties

IsSegment(e) == e.type = "segment"

IsPartial(e) == e.type = "partial"

\* the t1 values of the segment events among evs, in order
RECURSIVE SegmentT1s(_)
SegmentT1s(evs) ==
    IF evs = <<>> THEN <<>>
    ELSE (IF IsSegment(Head(evs)) THEN <<Head(evs).t1>> ELSE <<>>) \o SegmentT1s(Tail(evs))

\* the events the step from this state to the next appends to stdout
NewEvents == SubSeq(out', Len(out) + 1, Len(out'))

\* the stream an AUDIO frame is for, when it was the latest frame handled
LastAudioFor(s) ==
    last_frame.type = MSG_AUDIO /\ StreamOfId(last_frame.stream_id) = s

\* C1: the bytes appended to a stream's raw PCM file number
\* last_sample_index * bytes_per_frame, with bytes_per_frame = 2 * channels.
C1_RawSizeMatchesIndex ==
    \A s \in DOMAIN writers :
        Len(writers[s].pcm) = writers[s].last_sample_index * (2 * channels)

\* a frame with a partial trailing frame was appended after inserted silence
C1_Witness ==
    \E s \in DOMAIN writers :
        /\ LastAudioFor(s)
        /\ Len(last_frame.payload) % BytesPerFrame(channels) # 0
        /\ Usable(last_frame.payload, channels) > 0
        /\ writers[s].pcm # <<>>
        /\ writers[s].pcm[1] = 0
        /\ writers[s].pcm[Len(writers[s].pcm)] = Usable(last_frame.payload, channels)

\* C2: no call of write_aligned_audio decreases a writer's last_sample_index.
C2_LastSampleIndexNonDecreasing ==
    [][\A s \in DOMAIN writers :
          LastAudioFor(s)' =>
              writers'[s].last_sample_index >= writers[s].last_sample_index]_vars

\* a frame with a negative pts_us arrived when the stream already held more
\* audio than the frame carries: all of it overlapped
C2_Witness ==
    \E s \in DOMAIN writers :
        /\ LastAudioFor(s)
        /\ last_frame.pts_us < 0
        /\ Usable(last_frame.payload, channels) > 0
        /\ writers[s].last_sample_index * BytesPerFrame(channels)
               > Usable(last_frame.payload, channels)

\* C3: the sample bytes written to a stream's container sink are the bytes
\* written to its raw sink, silence included.
C3_ContainerMatchesRaw ==
    \A s \in DOMAIN writers : writers[s].wav = writers[s].pcm

\* a stream holding inserted silence followed by payload bytes
C3_Witness ==
    \E s \in DOMAIN writers :
        /\ LastAudioFor(s)
        /\ writers[s].wav # <<>>
        /\ writers[s].wav[1] = 0
        /\ writers[s].wav[Len(writers[s].wav)] # 0

\* C4: for every stream, the t1 values of the segment events emitted for it,
\* in the order of emission, are strictly increasing.
C4_SegmentT1StrictlyIncreasing ==
    \A i \in 1..Len(out), j \in 1..Len(out) :
        (i < j /\ IsSegment(out[i]) /\ IsSegment(out[j]) /\ out[i].stream = out[j].stream)
            => out[i].t1 < out[j].t1

\* two segments of one stream emitted by different calls: the later call was
\* given the earlier segment's turn again and did not emit it again
C4_Witness ==
    \E i \in 1..Len(out), j \in 1..Len(out) :
        /\ i < j /\ IsSegment(out[i]) /\ IsSegment(out[j])
        /\ out[i].stream = out[j].stream /\ out[i].call = 1 /\ out[j].call = 2
        /\ \E k \in 1..Len(last_call.turns) : last_call.turns[k].end = out[i].t1

\* C6: in every emit_transcript call cutoff <= current_duration, and a call
\* with finalize false emits no segment with t1 > current_duration - finalize_lag.
C6_CutoffBounded ==
    ncalls > 0 =>
        /\ last_call.cutoff <= last_call.current_duration
        /\ ~last_call.finalize =>
               \A i \in 1..Len(out) :
                   (IsSegment(out[i]) /\ out[i].call = ncalls)
                       => out[i].t1 <= last_call.current_duration - finalize_lag

\* a non-final call with a positive lag that emitted the segment ending exactly
\* at current_duration - finalize_lag and held back a later turn
C6_Witness ==
    /\ ncalls > 0 /\ ~last_call.finalize /\ finalize_lag > 0
    /\ \E i \in 1..Len(out) :
           /\ IsSegment(out[i]) /\ out[i].call = ncalls
           /\ out[i].t1 = last_call.current_duration - finalize_lag
    /\ \E k \in 1..Len(last_call.turns) :
           /\ last_call.turns[k].end > last_call.cutoff
           /\ last_call.turns[k].end <= last_call.current_duration

\* the fingerprint an emitted partial event shows
EventFingerprint(e) == <<e.speaker_id, e.t0, e.text>>

\* C7: two partial events emitted consecutively for one stream (no partial of
\* that stream between them) differ in speaker, t0 or text.
C7_ConsecutivePartialsDiffer ==
    \A i \in 1..Len(out), j \in 1..Len(out) :
        (/\ i < j /\ IsPartial(out[i]) /\ IsPartial(out[j])
         /\ out[i].stream = out[j].stream
         /\ \A k \in (i + 1)..(j - 1) :
                ~(IsPartial(out[k]) /\ out[k].stream = out[i].stream))
            => EventFingerprint(out[i]) # EventFingerprint(out[j])

\* the second call repeats, for the same stream, the partial the first call
\* emitted: its last turn is past the cutoff and nothing is emitted for it
C7_Witness ==
    /\ ncalls = 2 /\ ~last_call.finalize /\ last_call.turns # <<>>
    /\ last_call.turns[Len(last_call.turns)].end > last_call.cutoff
    /\ \E i \in 1..Len(out) :
           /\ IsPartial(out[i]) /\ out[i].call = 1
           /\ out[i].stream = last_call.stream
           /\ EventFingerprint(out[i]) =
                  <<SpeakerId(last_call.stream, last_call.turns[Len(last_call.turns)].speaker),
                    last_call.turns[Len(last_call.turns)].start,
                    last_call.turns[Len(last_call.turns)].text>>
    /\ \A i \in 1..Len(out) : IsPartial(out[i]) => out[i].call = 1

\* the first call of Scenario E: a fresh emitter, finalize false
ScenarioFirstCall ==
    /\ ncalls = 0
    /\ last_call' = [stream |-> last_call'.stream, turns |-> ScenarioFirst,
                     current_duration |-> 1200, finalize |-> FALSE,
                     cutoff |-> last_call'.cutoff]

\* the second call of Scenario E: right after the first, on the same stream
ScenarioSecondCall ==
    /\ ncalls = 1
    /\ last_call.turns = ScenarioFirst /\ last_call.current_duration = 1200
    /\ ~last_call.finalize
    /\ last_call' = [stream |-> last_call.stream, turns |-> ScenarioSecond,
                     current_duration |-> 1600, finalize |-> FALSE,
                     cutoff |-> last_call'.cutoff]

\* C8 as stated: the first call emits exactly the segment t1 = 3.0 s, the
\* second exactly the segments t1 = 7.0 s and t1 = 10.5 s.
C8_ScenarioE_AsStated ==
    [][/\ ScenarioFirstCall => SegmentT1s(NewEvents) = <<300>>
       /\ ScenarioSecondCall => SegmentT1s(NewEvents) = <<700, 1050>>]_vars

\* C8 amended: the turn ending at 7.0 s is not past the cutoff 12.0 - 5.0, so
\* the first call emits t1 = 3.0 s and t1 = 7.0 s and the second only t1 = 10.5 s.
C8_ScenarioE ==
    [][/\ ScenarioFirstCall => SegmentT1s(NewEvents) = <<300, 700>>
       /\ ScenarioSecondCall => SegmentT1s(NewEvents) = <<1050>>]_vars

\* both calls of the scenario made, on one stream
C8_Witness ==
    /\ ncalls = 2
    /\ last_call.turns = ScenarioSecond /\ last_call.current_duration = 1600
    /\ ~last_call.finalize
    /\ \E i \in 1..Len(out), j \in 1..Len(out), k \in 1..Len(out) :
           /\ IsSegment(out[i]) /\ out[i].call = 1 /\ out[i].t1 = 300
           /\ IsSegment(out[j]) /\ out[j].call = 1 /\ out[j].t1 = 700
           /\ IsSegment(out[k]) /\ out[k].call = 2 /\ out[k].t1 = 1050
           /\ out[i].stream = last_call.stream
           /\ out[j].stream = last_call.stream

\* the last entry of a non-empty log
Last(log) == log[Len(log)]

\* C5: at most one thread is inside run_pipeline at any instant, over all
\* interleavings of the system and mic workers and of the final pass main
\* makes in no-live mode.
C5_OnePipelineAtATime == Cardinality(InPipeline) <= 1

\* one worker is inside run_pipeline while the other, its pass started, waits
\* for the lock
C5_Witness ==
    \E s \in DOMAIN live, t \in DOMAIN live :
        /\ s # t
        /\ live[s].pc = "run_pipeline"
        /\ live[t].pc = "acquire"
        /\ run_pipeline_lock = s

\* the duration of a raw file of size_bytes bytes at a snapshot's rate and
\* channels: size_bytes / (2 * channels * sample_rate) seconds, in ticks
DurationOfBytes(size_bytes, snapshot) ==
    (size_bytes * TicksPerSecond) \div (2 * snapshot.channels * snapshot.sample_rate)

\* duration >= live_min_seconds and duration - last_processed_duration >= live_interval
BothConditions(duration, last_processed_duration) ==
    /\ duration >= args.live_min_seconds
    /\ duration - last_processed_duration >= args.live_interval

\* C9: a worker starts a non-final pass only when the snapshot duration is at
\* least live_min_seconds and exceeds last_processed_duration by at least
\* live_interval; when either fails at a wake or timeout, the call ends there:
\* no event is emitted, no pass is logged, and the worker is back at its loop.
C9_NonFinalPassOnlyWhenDue ==
    [][\A s \in DOMAIN live :
          /\ (live[s].pc = "stat" /\ live'[s].pc # "stat" /\ ~live[s].finalize
              /\ ~BothConditions(DurationOfBytes(Len(writers[s].pcm), live[s].snapshot),
                                 live[s].last_processed_duration))
                 => /\ NewEvents = <<>>
                    /\ passes'[s] = passes[s]
                    /\ live'[s].pc = "loop"
                    /\ run_pipeline_lock' = run_pipeline_lock
          /\ (passes'[s] # passes[s] /\ ~Last(passes'[s]).finalize)
                 => BothConditions(Last(passes'[s]).duration,
                                   Last(passes'[s]).last_processed_duration)]_vars

\* a worker made a pass, and at a later wake skipped although the stream was
\* long enough, because too little had been added since that pass; in the
\* same run nothing is running and nothing was emitted after the pass's events
C9_Witness ==
    \E s \in DOMAIN live :
        /\ passes[s] # <<>>
        /\ skips[s].duration >= args.live_min_seconds
        /\ skips[s].last_processed_duration > 0
        /\ skips[s].duration - skips[s].last_processed_duration < args.live_interval
        /\ skips[s].duration > skips[s].last_processed_duration
        /\ live[s].pc = "loop"

\* C10: a worker's pass with finalize=true is the last pass it starts, so there
\* is at most one, and it is started only after stop was called; and once
\* stop(finalize=True) has returned for a stream that held at least one byte
\* when it was called, that pass has been made and the worker thread has ended.
C10_OneFinalPassBeforeStopReturns ==
    \A s \in DOMAIN live :
        /\ \A i \in 1..Len(passes[s]) :
               passes[s][i].finalize => (i = Len(passes[s]) /\ stop_log[s].called)
        /\ (stop_log[s].returned /\ stop_log[s].size_bytes > 0)
               => /\ passes[s] # <<>>
                  /\ Last(passes[s]).finalize
                  /\ live[s].pc = "done"

\* stop has returned for a stream with audio whose worker had made a non-final
\* pass before its final one
C10_Witness ==
    \E s \in DOMAIN live :
        /\ stop_log[s].returned
        /\ stop_log[s].size_bytes > 0
        /\ Len(passes[s]) >= 2
        /\ ~passes[s][1].finalize
        /\ Last(passes[s]).finalize

\* C11: once stop has signalled a live processor, its worker starts no further
\* non-final pass: every pass a worker starts after the signal (the
\* live_process_start event included) is the final one, a pass started before
\* the signal being free to complete.  (main only calls stop(finalize=True).)
C11_NoNonFinalPassAfterStop ==
    [][\A s \in DOMAIN live :
          (stop_log[s].called /\ passes'[s] # passes[s])
              => Last(passes'[s]).finalize]_vars

\* the worker of stream s leaves run_pipeline by an exception, or leaves the
\* except branch
FailureStep(s) ==
    \/ live[s].pc = "run_pipeline" /\ live'[s].pc = "error"
    \/ live[s].pc = "error" /\ live'[s].pc # "error"

\* what a failed pass leaves alone: last_processed_duration and the state of
\* the emitter; its only output is the error event of the except branch
FailureLeavesStateAlone(s) ==
    /\ live'[s].last_processed_duration = live[s].last_processed_duration
    /\ UNCHANGED <<last_emitted_t1_by_stream, last_partial_by_stream, seen_speakers>>
    /\ NewEvents = IF live[s].pc = "error"
                   THEN <<[type |-> "error", message |-> "pipeline"]>> ELSE <<>>

\* C12 as stated: when run_pipeline raises in a pass of a live processor, an
\* error event is emitted, last_processed_duration and the emitter state stay
\* as they were, and the worker stays alive, back at the top of its loop for
\* another attempt at a later wake or timeout.
C12_FailedPassRetried_AsStated ==
    [][\A s \in DOMAIN live :
          FailureStep(s) =>
              /\ FailureLeavesStateAlone(s)
              /\ live[s].pc = "error" => live'[s].pc = "loop"]_vars

\* C12, amended: when run_pipeline raises in a pass of a live processor, an
\* error event is emitted and last_processed_duration and the emitter state
\* stay as they were; after a failed non-final pass the worker is back at the
\* top of its loop and calls _maybe_process again (at a later wake or timeout,
\* or for the final pass once stop is signalled), after a failed final pass
\* the worker thread ends without another attempt.
C12_FailedPassRetried ==
    /\ [][\A s \in DOMAIN live :
             FailureStep(s) =>
                 /\ FailureLeavesStateAlone(s)
                 /\ live[s].pc = "error" =>
                        live'[s].pc = IF live[s].finalize THEN "done" ELSE "loop"]_vars
    /\ \A s \in Streams :
           (s \in DOMAIN live /\ live[s].pc = "error" /\ ~live[s].finalize)
               ~> (s \in DOMAIN live /\ live[s].pc = "snapshot")

\* a non-final pass failed and the worker has started a second pass, with
\* last_processed_duration still 0
C12_Witness ==
    \E s \in DOMAIN live :
        /\ failures = 1
        /\ Len(passes[s]) = 2
        /\ ~passes[s][1].finalize
        /\ passes[s][2].last_processed_duration = 0
        /\ \E i \in 1..Len(out) :
               /\ out[i] = [type |-> "error", message |-> "pipeline"]
               /\ i < Len(out)
               /\ out[Len(out)].type = "status"
               /\ out[Len(out)].message = "live_process_start"
        /\ live[s].pc = "acquire"

\* C13: after any pipeline pass has ended, whether it succeeded or failed at
\* any step (materialising the container, the transcoder check, normalisation,
\* ASR, diarisation, merge), neither the container file materialised for it
\* nor its normalised 16 kHz file remains.
C13_NoEphemeralFileRemains ==
    pipeline.pc = "ended" => (~pipeline.temp_wav /\ ~pipeline.normalised)

\* C19: when the pipeline is run with a timestamp offset d, every word and
\* every diarisation segment of the merged transcript has its start and its
\* end shifted by exactly d from what the ASR engine and the diariser
\* returned (offset 10.0 s: word 1.0-2.0 becomes 11.0-12.0, segment 0.5-1.5
\* becomes 10.5-11.5).
C19_TimestampOffsetApplied ==
    (pipeline.pc = "ended" /\ pipeline.result = "merged") =>
        LET d == pipeline.timestamp_offset
            words == ValidWords(SortedByStart(pipeline.transcript))
            merged == pipeline.merged
        IN  /\ Len(merged.words) = Len(words)
            /\ \A i \in 1..Len(words) :
                   /\ merged.words[i].text = words[i].text
                   /\ merged.words[i].start = words[i].start + d
                   /\ merged.words[i].end = words[i].end + d
            /\ Len(merged.segments) = Len(pipeline.segments)
            /\ \A i \in 1..Len(pipeline.segments) :
                   /\ merged.segments[i].speaker = pipeline.segments[i].speaker
                   /\ merged.segments[i].start = pipeline.segments[i].start + d
                   /\ merged.segments[i].end = pipeline.segments[i].end + d

\* n copies of a payload in a row
RECURSIVE Copies(_, _)
Copies(payload, n) == IF n = 0 THEN <<>> ELSE payload \o Copies(payload, n - 1)

\* C14: N frames that each carry the same whole-frame payload P, frame i
\* stamped with the start time of sample i * frames(P), written to a fresh
\* stream writer give a raw file that is exactly N copies of P in a row: no
\* silence is inserted and no byte is dropped.
C14_ContiguousFramesConcatenate ==
    starts > 0 =>
        LET w == writers[StreamOfId(peer.stream_id)]
        IN  /\ w.pcm = Copies(peer.payload, peer.sent)
            /\ w.last_sample_index = peer.sent * FramesOf(peer.payload, channels)

\* three frames of two frames each went to a two-channel writer, the last
\* stamped with a time that is not the exact start of its sample
C14_Witness ==
    /\ starts > 0
    /\ peer.sent = 3
    /\ channels = 2
    /\ FramesOf(peer.payload, channels) = 1
    /\ last_frame.type = MSG_AUDIO
    /\ last_frame.pts_us * sample_rate # 2 * MicrosPerSecond
    /\ Len(writers[StreamOfId(peer.stream_id)].pcm) = 12

\* the payload of the latest frame as write_aligned_audio holds it once the
\* trailing partial frame is cut off (payload = payload[:usable])
WholeFrames(frame, ch) ==
    TakeBytes(frame.payload, (Len(frame.payload) \div (2 * ch)) * (2 * ch))

\* round(pts_us * sample_rate / 1_000_000), not below 0
SampleAt(pts_us, sr) == Max(0, RoundHalfEven(pts_us * sr, 1000000))

\* C15: a frame whose start_sample is greater than last_sample_index makes
\* write_aligned_audio append exactly start_sample - last_sample_index frames
\* of zero bytes and then the whole payload (the payload as it stands after
\* the cut to whole frames), to both sinks, and last_sample_index becomes
\* start_sample + payload_frames; with last_sample_index = 0, 16000 Hz mono
\* and pts_us = 62500 that is 2000 zero bytes, then the payload.
C15_GapFilledWithSilence ==
    [][\A s \in DOMAIN writers :
          LET frame == last_frame'
              payload == WholeFrames(frame, channels)
              start_sample == SampleAt(frame.pts_us, sample_rate)
              w == writers[s]
              gap == start_sample - w.last_sample_index
          IN  (LastAudioFor(s)' /\ payload # <<>> /\ gap > 0) =>
                  /\ writers'[s].pcm = w.pcm \o Zeros(gap * 2 * channels) \o payload
                  /\ writers'[s].wav = w.wav \o Zeros(gap * 2 * channels) \o payload
                  /\ writers'[s].last_sample_index
                         = start_sample + Len(payload) \div (2 * channels)
                  /\ writers'[s].bytes_written
                         = w.bytes_written + gap * 2 * channels + Len(payload)
                  /\ (w.last_sample_index = 0 /\ sample_rate = 16000 /\ channels = 1
                      /\ frame.pts_us = 62500)
                         => writers'[s].pcm = Zeros(2000) \o payload]_vars

\* Scenario D has happened: the system stream, fresh at 16000 Hz mono, took a
\* frame stamped 62500 us and holds 2000 zero bytes and then the payload
C15_Witness ==
    /\ sample_rate = 16000
    /\ channels = 1
    /\ LastAudioFor("system")
    /\ last_frame.pts_us = 62500
    /\ peer.sent = 1
    /\ Len(last_frame.payload) = 4
    /\ writers["system"].pcm = Zeros(2000) \o last_frame.payload
    /\ writers["system"].last_sample_index = 1002

Materialised ==
    reader.pc = "done" /\ reader.temp_path /\ reader.starts = starts

\* size_bytes - (size_bytes mod bytes_per_frame) of a snapshot
WholeSize(snapshot) ==
    snapshot.size_bytes - (snapshot.size_bytes % (2 * snapshot.channels))

\* C17: a container materialised from a snapshot from start offset 0 has as
\* its sample payload exactly the raw file's bytes
\* [0, size_bytes - (size_bytes mod bytes_per_frame)).
C17_ContainerIsRawPrefix ==
    (Materialised /\ reader.start_byte = 0) =>
        reader.wav = SubSeq(writers[reader.stream].pcm, 1, WholeSize(reader.snapshot))

\* a container was made of a mono stream of three frames taken as two
\* channels: it holds the first four bytes and not the odd frame
C17_Witness ==
    /\ Materialised
    /\ reader.start_byte = 0
    /\ reader.snapshot.size_bytes = 6
    /\ reader.snapshot.channels = 2
    /\ Len(reader.wav) = 4
    /\ reader.wav = SubSeq(writers[reader.stream].pcm, 1, 4)
    /\ reader.wav[4] # 0

\* C18 as stated: a container materialised from a snapshot with a start byte
\* offset s (a whole number of frames, s <= size_bytes) has as its sample
\* payload the raw file's bytes from offset s up to size_bytes; 1000 samples
\* and s = 200 give samples 100 to 999.
C18_ContainerStartsAtOffset ==
    (Materialised /\ reader.snapshot.size_bytes = WholeSize(reader.snapshot)) =>
        reader.wav = SubSeq(reader.raw, reader.start_byte + 1, reader.snapshot.size_bytes)

\* C20: while the dispatcher keeps appending to the raw file, a pass working
\* from a snapshot reads only raw bytes at offsets below the snapshot's
\* size_bytes, and the container it materialises holds exactly the bytes
\* [0, size_bytes - (size_bytes mod bytes_per_frame)) the file held when the
\* snapshot was taken, none of those appended since.
C20_ReadsBelowSnapshotSize ==
    (reader.pc # "none" /\ reader.starts = starts) =>
        /\ \A i \in 1..Len(reader.reads) :
               reader.reads[i].upto <= reader.snapshot.size_bytes
        /\ Len(reader.wav) <= WholeSize(reader.snapshot)
        /\ reader.wav = SubSeq(reader.raw, 1, Len(reader.wav))
        /\ Materialised => Len(reader.wav) = WholeSize(reader.snapshot)

\* a container was finished whose last read found the raw file longer than
\* the snapshot says, after a first read that found it as the snapshot says
C20_Witness ==
    /\ Materialised
    /\ Len(reader.reads) >= 2
    /\ reader.reads[1].file_size = reader.snapshot.size_bytes
    /\ reader.reads[Len(reader.reads)].file_size > reader.snapshot.size_bytes
    /\ Len(reader.wav) = reader.snapshot.size_bytes
    /\ Len(writers[reader.stream].pcm) > reader.snapshot.size_bytes

IsSpeakers(e) == e.type = "speakers"

\* the speakers events written so far, in order
SpeakersEvents == SelectSeq(out, IsSpeakers)

\* the ids of a known list
KnownIds(e) == {e.known[i] : i \in 1..Len(e.known)}

\* a list of speaker ids is in strictly increasing order
IdsSorted(ids) == \A i, j \in 1..Len(ids) : i < j => IdBefore(ids[i], ids[j])

\* the speaker ids of the call the step makes
CallIds == SpeakerIds(last_call'.stream, last_call'.turns)

\* C21: an emit_transcript call emits exactly one speakers event when some
\* turn's speaker_id is not yet in seen_speakers and none otherwise; the
\* event's known list is the sorted list of every speaker_id seen so far over
\* all streams; every speakers event written adds an id to the one before it,
\* so an id is new to a speakers event at most once.
C21_SpeakersEventOncePerNewSpeaker ==
    [][ncalls' # ncalls =>
          LET speakers == SelectSeq(NewEvents, IsSpeakers)
              all == SelectSeq(out', IsSpeakers)
          IN  /\ Len(speakers) = IF CallIds \ seen_speakers # {} THEN 1 ELSE 0
              /\ seen_speakers' = seen_speakers \cup CallIds
              /\ \A i \in 1..Len(speakers) :
                     /\ KnownIds(speakers[i]) = seen_speakers'
                     /\ Len(speakers[i].known) = Cardinality(seen_speakers')
                     /\ IdsSorted(speakers[i].known)
              /\ \A i, j \in 1..Len(all) :
                     i < j => /\ KnownIds(all[i]) \subseteq KnownIds(all[j])
                              /\ KnownIds(all[i]) # KnownIds(all[j])
    ]_vars

\* a second call, for the other stream, brought a new speaker id: its speakers
\* event lists the ids of both streams, those of the first event among them
C21_Witness ==
    /\ ncalls = 2
    /\ Len(SpeakersEvents) = 2
    /\ SpeakersEvents[2].call = 2
    /\ \E a, b \in KnownIds(SpeakersEvents[2]) : a[1] # b[1]
    /\ Len(SpeakersEvents[2].known) >= 3

\* C22: every write to standard output made while the backend runs is one
\* whole record line written while EMIT_MUTEX (stdout_lock) is held by the
\* writer, and none lands on the unfinished line of another writer.
C22_StdoutWritesAreLockedRecords ==
    \A c \in sync.written :
        /\ c.kind = "line"
        /\ c.locked
        /\ c.after \in {"", c.thread}

\* C23: no thread requests STATE_MUTEX while holding EMIT_MUTEX, and no thread
\* requests or holds PIPELINE_MUTEX while holding STATE_MUTEX.
C23_LockOrder ==
    \A t \in Threads :
        /\ EMIT_MUTEX \in Held(t) => Wants(t) # STATE_MUTEX
        /\ STATE_MUTEX \in Held(t) =>
               Wants(t) # PIPELINE_MUTEX /\ PIPELINE_MUTEX \notin Held(t)

\* the dispatcher writes a meter record inside state.lock while a worker is
\* inside run_pipeline, and another worker waits for state.lock
C23_Witness ==
    /\ Held("main") = {STATE_MUTEX, EMIT_MUTEX}
    /\ \E s, t \in Streams :
           /\ PIPELINE_MUTEX \in Held(s)
           /\ Wants(t) = STATE_MUTEX

\* C24, as stated: a thread holding the emitter's own lock requests no other
\* lock before it releases it.
C24_EmitterLockInnermost_AsStated ==
    \A t \in Threads : EMITTER_LOCK \in Held(t) => Wants(t) = ""

\* C24: a thread holding the emitter's own lock requests neither STATE_MUTEX
\* nor PIPELINE_MUTEX; the one lock it requests is EMIT_MUTEX, for each record
\* it writes, and a thread holding EMIT_MUTEX requests no lock: EMIT_MUTEX is
\* the innermost lock.
C24_EmitterLockInnermost ==
    \A t \in Threads :
        /\ EMITTER_LOCK \in Held(t) => Wants(t) \in {"", EMIT_MUTEX}
        /\ EMIT_MUTEX \in Held(t) => Wants(t) = ""

\* a worker writes a record of its transcript, inside the emitter's lock and
\* stdout_lock, while the other worker waits for the emitter's lock and the
\* dispatcher, inside state.lock, for stdout_lock
C24_Witness ==
    \E s, t \in Streams :
        /\ Held(s) = {EMITTER_LOCK, EMIT_MUTEX}
        /\ Wants(t) = EMITTER_LOCK
        /\ Held("main") = {STATE_MUTEX}
        /\ Wants("main") = EMIT_MUTEX

\* the dispatcher has stopped every live processor with finalize=true, each
\* stop has returned, and the writers are closed
ShutDownAsAtStop ==
    /\ main.pc \in {"final", "run_pipeline", "exit"}
    /\ \A s \in DOMAIN live :
           /\ stop_log[s].called /\ stop_log[s].returned
           /\ live[s].finalize_requested

\* C25: when the input closes with fewer bytes than the 14-byte header, or
\* than the payload length a header declares, the dispatcher leaves its loop
\* with no error, as at a STOP frame: main is never ended by the exception,
\* and where it ends every live processor has been stopped with finalize=true
\* and the writers closed.
C25_ShortInputEndsCleanly ==
    fault.part \in {"header", "payload"} =>
        /\ main.pc # "raised"
        /\ main.pc \in {"stop", "join", "close", "final", "run_pipeline", "exit"}
        /\ main.pc = "exit" => ShutDownAsAtStop

\* the streams --transcribe-stream selects
Selected == {args.transcribe_streams[i] : i \in 1..Len(args.transcribe_streams)}

\* the stream's raw file holds audio
ReceivedAudio(s) == s \in DOMAIN writers /\ Len(writers[s].pcm) > 0

\* the no_audio_for_stream_ error events written for a stream
NoAudioEvents(s) == {i \in 1..Len(out) : out[i] = ErrorEvent(NoAudioMessage(s))}

\* C26: at shutdown one error event is emitted for each selected stream that
\* has no writer or zero bytes written, and none for any other stream; the
\* exit code is 1 exactly when no selected stream has received audio and 0
\* when at least one has.
C26_NoAudioErrorsAndExitCode ==
    /\ \A s \in Streams :
           /\ Cardinality(NoAudioEvents(s)) <= 1
           /\ NoAudioEvents(s) # {} => s \in Selected /\ ~ReceivedAudio(s)
    /\ main.pc = "exit" =>
           /\ \A s \in Selected : ~ReceivedAudio(s) => NoAudioEvents(s) # {}
           /\ main.code = (IF \E s \in Selected : ReceivedAudio(s) THEN 0 ELSE 1)

\* main has ended with code 0 after both streams were selected and opened and
\* only one of them had audio: one error event, for the other stream
C26_Witness ==
    /\ main.pc = "exit"
    /\ main.code = 0
    /\ Selected = Streams
    /\ DOMAIN writers = Streams
    /\ \E s, t \in Streams :
           /\ ReceivedAudio(s) /\ NoAudioEvents(s) = {}
           /\ ~ReceivedAudio(t) /\ Cardinality(NoAudioEvents(t)) = 1

IsError(e) == e.type = "error"

\* C27: when an append to a stream's writer fails with an I/O error, the
\* dispatcher emits an error event and goes on reading frames (main is not
\* ended by the exception), with no further append to that stream.
C27_AppendFailureContained ==
    fault.part = "append" =>
        /\ main.pc # "raised"
        /\ \E i \in 1..Len(out) : IsError(out[i])

\* the passes a worker has started with finalize=True
FinalPasses(s) == {i \in 1..Len(passes[s]) : passes[s][i].finalize}

\* C28: a failure during a live processor's pass outside the run_pipeline call
\* (the snapshot, the container file, the emission of the transcript) is
\* reported as an error event and leaves the worker alive: its thread is not
\* ended by the failure, and once stop has returned it has made its final
\* pass.
C28_FailureOutsidePipelineContained ==
    fault.part \in {"snapshot", "container", "emit"} =>
        /\ \E i \in 1..Len(out) : IsError(out[i])
        /\ \A s \in DOMAIN live :
               /\ live[s].pc # "dead"
               /\ (stop_log[s].returned /\ stop_log[s].size_bytes > 0) =>
                      FinalPasses(s) # {}

\* the text with every space that is followed by a space left out
RECURSIVE Squeezed(_)
Squeezed(text) ==
    IF text = <<>> THEN <<>>
    ELSE (IF Len(text) >= 2 /\ text[1] = " " /\ text[2] = " " THEN <<>> ELSE <<text[1]>>)
             \o Squeezed(Tail(text))

\* the text from its first to its last character that is not whitespace
Trimmed(text) ==
    LET inked == {i \in 1..Len(text) : text[i] \notin Whitespace}
    IN  IF inked = {} THEN <<>>
        ELSE SubSeq(text, CHOOSE i \in inked : \A j \in inked : i <= j,
                          CHOOSE i \in inked : \A j \in inked : i >= j)

\* C29, as stated: the join of a single-word turn equals that word's text
\* trimmed.
C29_JoinIsClean_AsStated ==
    (calc.returned /\ Len(calc.words) = 1) =>
        calc.result = Trimmed(calc.words[1].text)

\* C29: for every list of turn words the punctuation-aware join holds no two
\* consecutive spaces and no leading or trailing whitespace; for a single-word
\* turn it equals that word's text with every run of spaces collapsed to one
\* space and then trimmed, which is the text trimmed when it holds no two
\* consecutive spaces.
C29_JoinIsClean ==
    calc.returned =>
        /\ ~HasDoubleSpace(calc.result)
        /\ calc.result # <<>> =>
               /\ calc.result[1] \notin Whitespace
               /\ calc.result[Len(calc.result)] \notin Whitespace
        /\ Len(calc.words) = 1 =>
               /\ calc.result = Trimmed(Squeezed(calc.words[1].text))
               /\ ~HasDoubleSpace(calc.words[1].text) =>
                      calc.result = Trimmed(calc.words[1].text)

\* three words were joined whose parts put five spaces or more in a row,
\* between two letters
C29_Witness ==
    /\ calc.returned
    /\ Len(calc.words) = 3
    /\ \E i \in 1..Len(Concat(Parts(calc.words, <<>>))) :
           \A j \in i..(i + 4) :
               /\ j <= Len(Concat(Parts(calc.words, <<>>)))
               /\ Concat(Parts(calc.words, <<>>))[j] = " "
    /\ calc.result = <<"a", " ", "a">>

\* the words of the turns, one turn after the other
RECURSIVE WordsOfTurns(_)
WordsOfTurns(turns) == IF turns = <<>> THEN <<>> ELSE Head(turns).words \o WordsOfTurns(Tail(turns))

\* the places in the word list where a turn of the result begins
RECURSIVE FirstWords(_, _)
FirstWords(turns, at) ==
    IF turns = <<>> THEN {}
    ELSE {at} \cup FirstWords(Tail(turns), at + Len(Head(turns).words))

\* where the turn begins that holds word i
TurnStartOf(i) ==
    CHOOSE s \in FirstWords(calc.result, 1) :
        s <= i /\ \A r \in FirstWords(calc.result, 1) : r <= i => r <= s

SpeakerDiffers(i) == calc.words[i].speaker # calc.words[i - 1].speaker

GapExceeds(i) == calc.words[i].start - calc.words[i - 1].end > calc.gap_threshold

DurationExceeds(i) ==
    calc.words[i].end - calc.words[TurnStartOf(i - 1)].start > calc.max_turn_duration

\* C30: the turns of words_to_turns hold the words in their order, every turn
\* at least one; a turn begins at word i > 1 exactly when its speaker differs
\* from the word before, or word.start - prev.end > gap_threshold, or
\* word.end - turn_start > max_turn_duration, turn_start being the start of
\* the first word of the turn the word before is in; no words give no turns.
C30_TurnBoundaries ==
    calc.returned =>
        /\ WordsOfTurns(calc.result) = calc.words
        /\ \A k \in 1..Len(calc.result) :
               /\ calc.result[k].words # <<>>
               /\ calc.result[k].start = calc.result[k].words[1].start
               /\ calc.result[k].speaker = calc.result[k].words[1].speaker
        /\ \A i \in 2..Len(calc.words) :
               i \in FirstWords(calc.result, 1)
                   <=> (SpeakerDiffers(i) \/ GapExceeds(i) \/ DurationExceeds(i))
        /\ calc.words = <<>> => calc.result = <<>>

\* three words of one speaker were grouped: the third begins a turn for the
\* length of the turn alone, the second begins none
C30_Witness ==
    /\ calc.returned
    /\ Len(calc.words) = 3
    /\ FirstWords(calc.result, 1) = {1, 3}
    /\ ~SpeakerDiffers(2) /\ ~GapExceeds(2) /\ ~DurationExceeds(2)
    /\ ~SpeakerDiffers(3) /\ ~GapExceeds(3) /\ DurationExceeds(3)

\* the overlap of word w with segment k of the call, and the distance of the
\* word's middle from it, doubled
OverlapWith(w, k) ==
    LET g == calc.segments[k]
        low == IF w.start >= g.start THEN w.start ELSE g.start
        high == IF w.end <= g.end THEN w.end ELSE g.end
    IN  IF high > low THEN high - low ELSE 0

DistanceTo2(w, k) ==
    LET g == calc.segments[k]
    IN  IF w.start + w.end < 2 * g.start THEN 2 * g.start - (w.start + w.end)
        ELSE IF w.start + w.end > 2 * g.end THEN (w.start + w.end) - 2 * g.end
        ELSE 0

\* the first segment among those where f is greatest (least, with sign -1)
FirstBest(f(_), sign) ==
    CHOOSE k \in 1..Len(calc.segments) :
        /\ \A j \in 1..Len(calc.segments) : sign * f(j) <= sign * f(k)
        /\ \A j \in 1..(k - 1) : sign * f(j) < sign * f(k)

\* the speaker the rule of the overlap and of the nearest segment gives a word
RuleSpeaker(w) ==
    LET o(k) == OverlapWith(w, k)
        d(k) == DistanceTo2(w, k)
    IN  IF calc.segments = <<>> THEN UNKNOWN
        ELSE IF o(FirstBest(o, 1)) > 0 THEN calc.segments[FirstBest(o, 1)].speaker
        ELSE IF d(FirstBest(d, -1)) <= 2 * calc.tolerance
             THEN calc.segments[FirstBest(d, -1)].speaker
        ELSE UNKNOWN

\* the words of the call with end > start, as a bag: how many times each occurs
ValidCount(w) == Cardinality({i \in 1..Len(calc.words) : calc.words[i] = w})

\* C31: before interpolation every word of the call with end > start is
\* labelled, in order of start, with the speaker of the first segment of
\* largest positive overlap; without any overlap, with the speaker of the
\* (first) segment nearest its midpoint when that distance is <= tolerance,
\* and UNKNOWN otherwise; the words with end <= start are not in the list.
C31_OverlapThenNearest ==
    calc.returned =>
        /\ \A i \in 1..Len(calc.labelled) :
               LET l == calc.labelled[i]
                   w == [text |-> l.text, start |-> l.start, end |-> l.end]
               IN  /\ l.end > l.start
                   /\ l.speaker = RuleSpeaker(w)
                   /\ Cardinality({j \in 1..Len(calc.labelled) :
                                       calc.labelled[j].start = l.start
                                       /\ calc.labelled[j].end = l.end})
                          = ValidCount(w)
                   /\ i > 1 => calc.labelled[i - 1].start <= l.start
        /\ \A i \in 1..Len(calc.words) :
               calc.words[i].end > calc.words[i].start
                   => \E j \in 1..Len(calc.labelled) :
                          /\ calc.labelled[j].start = calc.words[i].start
                          /\ calc.labelled[j].end = calc.words[i].end

\* a call with two segments of different speakers and two words: one has the
\* same positive overlap with both and takes the first, the other overlaps
\* neither and takes the second, the nearest, within the tolerance
C31_Witness ==
    /\ calc.returned
    /\ Len(calc.segments) = 2 /\ Len(calc.labelled) = 2
    /\ calc.segments[1].speaker # calc.segments[2].speaker
    /\ \E i, j \in 1..2 :
           LET u == calc.labelled[i]
               v == calc.labelled[j]
           IN  /\ OverlapWith(u, 1) = OverlapWith(u, 2)
               /\ OverlapWith(u, 1) > 0
               /\ u.speaker = calc.segments[1].speaker
               /\ OverlapWith(v, 1) = 0 /\ OverlapWith(v, 2) = 0
               /\ DistanceTo2(v, 2) < DistanceTo2(v, 1)
               /\ DistanceTo2(v, 2) > 0
               /\ v.speaker = calc.segments[2].speaker

\* the call of Scenario F
ScenarioCall ==
    /\ calc.fn = "assign_speakers_to_words"
    /\ calc.words = ScenarioWords
    /\ calc.segments = ScenarioSegments
    /\ calc.tolerance = 0

\* C33: Scenario F: the middle word is UNKNOWN after the overlap and nearest
\* segment assignment and SPEAKER_01 after the interpolation; the call
\* returns the three words, all of SPEAKER_01.
C33_ScenarioF ==
    (ScenarioCall /\ calc.returned) =>
        /\ Len(calc.labelled) = 3
        /\ calc.labelled[1].speaker = "SPEAKER_01"
        /\ calc.labelled[2].speaker = UNKNOWN
        /\ calc.labelled[3].speaker = "SPEAKER_01"
        /\ Len(calc.result) = 3
        /\ \A i \in 1..3 :
               /\ calc.result[i].speaker = "SPEAKER_01"
               /\ calc.result[i].start = ScenarioWords[i].start
               /\ calc.result[i].end = ScenarioWords[i].end

\* the call of Scenario F has returned
C33_Witness == ScenarioCall /\ calc.returned /\ Len(calc.result) = 3

\* the places of the known words of the call
KnownPlaces == {i \in 1..Len(calc.words) : calc.words[i].speaker # UNKNOWN}

\* the speaker of the last known word before place i; there is one
LastKnownBefore(i) ==
    calc.words[CHOOSE j \in KnownPlaces :
                   j < i /\ \A k \in KnownPlaces : k < i => k <= j].speaker

\* the known words among the n places after place i
KnownWithin(i, n) == {j \in KnownPlaces : j > i /\ j <= i + n}

\* the speaker of the first of them
FirstKnownWithin(i, n) ==
    calc.words[CHOOSE j \in KnownWithin(i, n) :
                   \A k \in KnownWithin(i, n) : j <= k].speaker

\* what the forward pass makes of the UNKNOWN words that follow a known one,
\* when it looks for the next known speaker among the n places after the word
ForwardLooks(n) ==
    calc.returned =>
        /\ Len(calc.forward) = Len(calc.words)
        /\ \A i \in 1..Len(calc.words) :
               (calc.words[i].speaker = UNKNOWN /\ \E j \in KnownPlaces : j < i) =>
                   calc.forward[i].speaker =
                       IF KnownWithin(i, n) = {}
                          \/ FirstKnownWithin(i, n) = LastKnownBefore(i)
                       THEN LastKnownBefore(i)
                       ELSE UNKNOWN

\* C32, as stated: the forward pass looks among the next 10 positions, i+1 to
\* i+10.
C32_ForwardLookAhead_AsStated == ForwardLooks(10)

\* C32: in the forward pass an UNKNOWN word at position i with a known speaker
\* before it looks for the next known speaker among the next 9 positions (i+1
\* to i+9): it adopts the last known speaker when none is found there or the
\* one found equals the last known speaker, and stays UNKNOWN for the backward
\* pass when the one found differs.
C32_ForwardLookAhead == ForwardLooks(9)

\* a known word, ten UNKNOWN words and a word of another speaker: the first
\* UNKNOWN word has adopted the speaker before it, the next one has not
C32_Witness ==
    /\ calc.fn = "_interpolate_unknown_speakers"
    /\ calc.returned
    /\ Len(calc.words) = 12
    /\ KnownPlaces = {1, 12}
    /\ calc.words[1].speaker # calc.words[12].speaker
    /\ calc.forward[2].speaker = calc.words[1].speaker
    /\ calc.forward[3].speaker = UNKNOWN
    /\ calc.result[3].speaker = calc.words[12].speaker

\* C39: after _interpolate_unknown_speakers, when some word of the input has
\* a known speaker, no word of the output is UNKNOWN; the words that had a
\* known speaker keep it, and the text, start and end of every word are as
\* they were.
C39_InterpolationFillsAll ==
    calc.returned =>
        /\ Len(calc.result) = Len(calc.words)
        /\ \A i \in 1..Len(calc.words) :
               /\ calc.result[i].text = calc.words[i].text
               /\ calc.result[i].start = calc.words[i].start
               /\ calc.result[i].end = calc.words[i].end
               /\ calc.words[i].speaker # UNKNOWN
                      => calc.result[i].speaker = calc.words[i].speaker
               /\ KnownPlaces # {} => calc.result[i].speaker # UNKNOWN

\* a list that begins with UNKNOWN words, which only the backward pass can
\* fill, and holds UNKNOWN words between two speakers
C39_Witness ==
    /\ calc.fn = "_interpolate_unknown_speakers"
    /\ calc.returned
    /\ Len(calc.words) >= 5
    /\ calc.words[1].speaker = UNKNOWN
    /\ calc.forward[1].speaker = UNKNOWN
    /\ calc.result[1].speaker # UNKNOWN
    /\ \E i, j \in KnownPlaces :
           /\ i + 1 < j
           /\ calc.words[i].speaker # calc.words[j].speaker
           /\ \A k \in (i + 1)..(j - 1) : calc.words[k].speaker = UNKNOWN

\* C40: the turns of words_to_turns partition the word list: their words,
\* one turn after the other, are the input list; every turn has a word, all
\* its words carry the turn's speaker, its start is the start of its first
\* word and its end the end of its last.
C40_TurnsPartitionWords ==
    (calc.fn = "words_to_turns" /\ calc.returned) =>
        /\ WordsOfTurns(calc.result) = calc.words
        /\ \A k \in 1..Len(calc.result) :
               LET turn == calc.result[k]
               IN  /\ Len(turn.words) >= 1
                   /\ \A i \in 1..Len(turn.words) : turn.words[i].speaker = turn.speaker
                   /\ turn.start = turn.words[1].start
                   /\ turn.end = turn.words[Len(turn.words)].end

\* two turns were made of three words; one of them has two words that start
\* and end at different times
C40_Witness ==
    /\ calc.fn = "words_to_turns"
    /\ calc.returned
    /\ Len(calc.words) = 3
    /\ Len(calc.result) = 2
    /\ \E k \in 1..2 :
           /\ Len(calc.result[k].words) = 2
           /\ calc.result[k].words[1].start < calc.result[k].words[2].start
           /\ calc.result[k].words[1].end < calc.result[k].words[2].end

\* C35: every event the dispatcher emits for a SCREENSHOT frame has type =
\* screenshot, whatever the keys of the frame's JSON payload, a key named
\* type included.
C35_ScreenshotEventType ==
    (last_frame.type = MSG_SCREENSHOT_EVENT /\ last_frame.payload.json = "object") =>
        /\ out # <<>>
        /\ out[Len(out)].type = "screenshot"
        /\ \A k \in DOMAIN last_frame.payload.value \ {"type"} :
               out[Len(out)][k] = last_frame.payload.value[k]

\* the event carries a speaker_id: a segment or a partial
CarriesSpeaker(e) == e.type \in {"segment", "partial"}

\* C38: every segment event and every partial event carrying speaker_id s is
\* written after a speakers event whose known list contains s, in whatever
\* order the emit_transcript calls for the two streams are made.
C38_SpeakersBeforeSegments ==
    \A i \in 1..Len(out) :
        CarriesSpeaker(out[i]) =>
            \E j \in 1..(i - 1) :
                IsSpeakers(out[j]) /\ out[i].speaker_id \in KnownIds(out[j])

\* an event of one stream carries a speaker that only a speakers event of an
\* earlier call announced, and an event of the other stream was written
\* between the two
C38_Witness ==
    \E i \in 1..Len(out) :
        LET announced == {j \in 1..(i - 1) : IsSpeakers(out[j])
                                              /\ out[i].speaker_id \in KnownIds(out[j])}
        IN  /\ CarriesSpeaker(out[i])
            /\ \A j \in announced : out[j].call < out[i].call
            /\ \E k \in 1..(i - 1) :
                   /\ CarriesSpeaker(out[k])
                   /\ out[k].stream # out[i].stream
                   /\ \A j \in announced : j < k

\* the steps of _maybe_process after its tests: the pass is under way
InPass == {"start", "acquire", "run_pipeline", "report", "error", "emit"}

\* C37: while the final pass of a live processor (finalize=True) is under way,
\* the size of its snapshot is the writer's last_sample_index times the bytes
\* of a frame, which is the size of the raw file when stop was called, and
\* main is still inside that processor's stop(), waiting in join(): it has
\* not come to closing the writers, nor to the deletion of the files after it
C37_FinalPassSeesAll ==
    \A s \in DOMAIN live :
        (live[s].finalize /\ live[s].pc \in InPass)
            => /\ s \in DOMAIN writers
               /\ live[s].snapshot.size_bytes
                      = writers[s].last_sample_index * BytesPerFrame(channels)
               /\ live[s].snapshot.size_bytes = Len(writers[s].pcm)
               /\ live[s].snapshot.size_bytes = stop_log[s].size_bytes
               /\ main.pc = "join"
               /\ MainStream = s
               /\ ~stop_log[s].returned

\* a final pass is inside run_pipeline on a file of silence and two frames,
\* after a pass of the loop on the same stream
C37_Witness ==
    \E s \in DOMAIN live :
        /\ live[s].finalize
        /\ live[s].pc = "run_pipeline"
        /\ live[s].snapshot.size_bytes = 3 * BytesPerFrame(channels)
        /\ \E i \in 1..Len(passes[s]) : ~passes[s][i].finalize

\* C34: every size a live processor has read for its snapshot is one the raw
\* file had between two appends of the dispatcher (last_sample_index times
\* the bytes of a frame, as it stood when an append had ended): no snapshot
\* sees the file after the silence of an append and before its payload
C34_SnapshotBetweenAppends ==
    \A s \in Streams : disk.seen[s] \subseteq disk.settled[s]

\* the raw file always holds what it held between two appends, or the append
\* under way up to its silence
MidAppendIsSilence ==
    \A s \in Streams :
        disk.size[s] \notin disk.settled[s]
            => /\ disk.pc \in {"write", "flush"}
               /\ disk.stream = s
               /\ disk.size[s] = writers[s].last_sample_index * BytesPerFrame(channels)

\* the file of a stream with a live processor holds enough for a pass of the
\* loop, and stop has not been asked for
DuePass(s) ==
    /\ s \in DOMAIN live
    /\ s \in DOMAIN writers
    /\ ~live[s].stop_event
    /\ ProcessDue(IndexDuration(writers[s].last_sample_index, sample_rate),
                  live[s].last_processed_duration)

\* the worker of the stream has started a pass, or stop has been asked for
PassOrStop(s) ==
    /\ s \in DOMAIN live
    /\ live[s].pc \in InPass \/ live[s].stop_event

\* a further MEETING_START has opened the stream's file anew, and it is empty
Reopened(s) ==
    /\ starts > 1
    /\ s \in DOMAIN writers
    /\ writers[s].last_sample_index = 0

\* C36, as stated: whenever a stream's file holds at least live_min_seconds
\* and at least live_interval more than the duration last processed, and stop
\* has not been asked for, the stream's worker comes to start a pipeline pass
\* (or stop is asked for first)
C36_DuePassStarts_AsStated == \A s \in Streams : DuePass(s) ~> PassOrStop(s)

\* C36, amended: whenever a stream's file holds at least live_min_seconds and
\* at least live_interval more than the duration last processed, and stop has
\* not been asked for, the stream's worker comes to start a pipeline pass,
\* unless stop is asked for or a further MEETING_START empties the file
\* first; whether or not the wake signal was seen by the wait
C36_DuePassStarts ==
    \A s \in Streams : DuePass(s) ~> (PassOrStop(s) \/ Reopened(s))

\* a pass is due, no pass is under way, and the worker, whose wait has ended
\* on the timeout, is about to clear a signal that notify_duration has set
\* since; and the same after a pass has failed
C36_Witness ==
    \E s \in Streams :
        /\ DuePass(s)
        /\ live[s].pc = "timed_out"
        /\ live[s].event
        /\ failures > 0

====
